---------------------------- MODULE Spec2Model ----------------------------
(***************************************************************************)
(* A model of solxact's transaction engine (src/src/transaction.rs): the   *)
(* four-partition address table with its promotion rules, the signature    *)
(* slots, the recent blockhash, and the wire codec (compact-u16, message,  *)
(* encode, decode).  Bytes are naturals in 0..255, byte strings are        *)
(* sequences of bytes, Option::None is the empty sequence.                 *)
(***************************************************************************)
EXTENDS Integers, Sequences, FiniteSets, TLC

VARIABLES
    tx,         \* the Transaction under construction
    fee_payer,  \* the argument Transaction::new was called with
    op,         \* the last operation applied to tx, with its arguments
    prev,       \* tx as it was before that operation
    wire,       \* the byte stream handed to Transaction::decode
    decoded,    \* the Result returned by Transaction::decode
    off_curve,  \* the SHA-256 hashes that do not decompress to a curve point
    pda,        \* how the last PDA derivation ended, and with what
    enc_words,        \* do_encode: the words of the arguments not yet read
    enc_encoding,     \* do_encode: the Encoding the data values are written in
    enc_data_values,  \* do_encode: the DataValues read and not yet written
    enc_data,         \* do_encode: the instruction data written so far
    enc_result        \* how the last read or write of data values ended

vars == <<tx, fee_payer, op, prev, wire, decoded, off_curve, pda, enc_words, enc_encoding, enc_data_values, enc_data, enc_result>>

-----------------------------------------------------------------------------
(* Program constants *)

MAXIMUM_ED25519_SIGNATURES_COUNT == 18
MAXIMUM_ADDRESSES_COUNT == 37
MAXIMUM_INSTRUCTION_ADDRESS_INDEX_COUNT == 1190
MAXIMUM_INSTRUCTION_DATA_COUNT == 1192
ADDRESS_BYTES == 32
SIGNATURE_BYTES == 64
U8_MAX == 255
U16_MAX == 65535

(* Bounds of the model *)

MaxInstructions == 2
MaxFill == 257
MaxWireSignatures == 2

-----------------------------------------------------------------------------
(* Values *)

None == << >>

\* Option<T>::is_some
IsSome(o) == o # None

\* The 32-byte address whose first two bytes hold n (little-endian), rest zero.
Addr(n) == [i \in 1..ADDRESS_BYTES |-> IF i = 1 THEN n % 256 ELSE IF i = 2 THEN (n \div 256) % 256 ELSE 0]

\* The 64-byte signature with every byte equal to k.
Sig(k) == [i \in 1..SIGNATURE_BYTES |-> k]

EMPTY_RECENT_BLOCKHASH == [i \in 1..ADDRESS_BYTES |-> 0]

EMPTY_SIGNATURE_BYTES == [i \in 1..SIGNATURE_BYTES |-> 0]

\* A 32-byte digest that is zero except for its last byte.
Digest(k) == [i \in 1..ADDRESS_BYTES |-> IF i = ADDRESS_BYTES THEN k ELSE 0]

PubkeyWithSignature(pubkey, signature) == [pubkey |-> pubkey, signature |-> signature]

Instruction(program_address, addresses, data) ==
    [program_address |-> program_address, addresses |-> addresses, data |-> data]

\* Result<T, Error>
Ok(v) == [ok |-> TRUE, value |-> v]

-----------------------------------------------------------------------------
(* Sequence helpers: Iterator::position, Vec::remove *)

\* Iterator::position: the first index of x in s (1-based), 0 when absent.
Position(s, x) ==
    LET hits == {i \in 1..Len(s) : s[i] = x}
    IN  IF hits = {} THEN 0 ELSE CHOOSE i \in hits : \A j \in hits : i <= j

Pubkeys(s) == [i \in 1..Len(s) |-> s[i].pubkey]

\* First index of the entry of s whose pubkey is x, 0 when absent.
PositionPubkey(s, x) == Position(Pubkeys(s), x)

Remove(s, pos) == SubSeq(s, 1, pos - 1) \o SubSeq(s, pos + 1, Len(s))


-----------------------------------------------------------------------------
(* The transaction builder *)

\* A plausible slip: the fee payer is pushed to the wrong signed vector.
new_read_only(payer) ==
    [signed_read_write_addresses |-> << >>,
     signed_read_only_addresses |-> <<PubkeyWithSignature(payer, None)>>,
     unsigned_read_write_addresses |-> << >>,
     unsigned_read_only_addresses |-> << >>,
     recent_blockhash |-> None,
     instructions |-> << >>]

\* Transaction::new
new(payer) ==
    [signed_read_write_addresses |-> <<PubkeyWithSignature(payer, None)>>,
     signed_read_only_addresses |-> << >>,
     unsigned_read_write_addresses |-> << >>,
     unsigned_read_only_addresses |-> << >>,
     recent_blockhash |-> None,
     instructions |-> << >>]

\* Transaction::add_signature
add_signature(t, pubkey, is_read_write) ==
    LET srw == t.signed_read_write_addresses
        sro == t.signed_read_only_addresses
        urw == t.unsigned_read_write_addresses
        uro == t.unsigned_read_only_addresses
    IN  IF is_read_write
        THEN IF PositionPubkey(srw, pubkey) # 0
             THEN t  \* already exists as signed read-write
             ELSE LET t1 == IF PositionPubkey(sro, pubkey) # 0
                            THEN [t EXCEPT !.signed_read_only_addresses = Remove(@, PositionPubkey(sro, pubkey))]
                            ELSE IF Position(urw, pubkey) # 0
                            THEN [t EXCEPT !.unsigned_read_write_addresses = Remove(@, Position(urw, pubkey))]
                            ELSE t
                  IN  [t1 EXCEPT !.signed_read_write_addresses = Append(@, PubkeyWithSignature(pubkey, None))]
        ELSE IF PositionPubkey(srw, pubkey) # 0
        THEN t  \* signed read-write supersedes signed read-only
        ELSE IF PositionPubkey(sro, pubkey) # 0
        THEN t  \* already exists as signed read-only
        ELSE IF Position(urw, pubkey) # 0
        THEN [t EXCEPT !.unsigned_read_write_addresses = Remove(@, Position(urw, pubkey)),
                       !.signed_read_write_addresses = Append(@, PubkeyWithSignature(pubkey, None))]
        ELSE LET t1 == IF Position(uro, pubkey) # 0
                       THEN [t EXCEPT !.unsigned_read_only_addresses = Remove(@, Position(uro, pubkey))]
                       ELSE t
             IN  [t1 EXCEPT !.signed_read_only_addresses = Append(@, PubkeyWithSignature(pubkey, None))]

\* A plausible slip: a read-only mention moves a read-write address down.
add_address_demoting(t, address, is_read_write) ==
    LET srw == t.signed_read_write_addresses
        sro == t.signed_read_only_addresses
        urw == t.unsigned_read_write_addresses
        uro == t.unsigned_read_only_addresses
    IN  IF PositionPubkey(srw, address) # 0 \/ PositionPubkey(sro, address) # 0 THEN t
        ELSE IF is_read_write
        THEN IF Position(urw, address) # 0 THEN t
             ELSE [t EXCEPT !.unsigned_read_only_addresses = IF Position(uro, address) # 0 THEN Remove(@, Position(uro, address)) ELSE @,
                            !.unsigned_read_write_addresses = Append(@, address)]
        ELSE IF Position(uro, address) # 0 THEN t
             ELSE [t EXCEPT !.unsigned_read_write_addresses = IF Position(urw, address) # 0 THEN Remove(@, Position(urw, address)) ELSE @,
                            !.unsigned_read_only_addresses = Append(@, address)]

\* Transaction::add_address
add_address(t, address, is_read_write) ==
    LET srw == t.signed_read_write_addresses
        sro == t.signed_read_only_addresses
        urw == t.unsigned_read_write_addresses
        uro == t.unsigned_read_only_addresses
    IN  IF is_read_write
        THEN IF PositionPubkey(srw, address) # 0
             THEN t  \* already exists as signed read-write
             ELSE IF PositionPubkey(sro, address) # 0
             THEN [t EXCEPT !.signed_read_only_addresses = Remove(@, PositionPubkey(sro, address)),
                            !.signed_read_write_addresses = Append(@, PubkeyWithSignature(address, None))]
             ELSE IF Position(urw, address) # 0
             THEN t  \* already exists as unsigned read-write
             ELSE LET t1 == IF Position(uro, address) # 0
                            THEN [t EXCEPT !.unsigned_read_only_addresses = Remove(@, Position(uro, address))]
                            ELSE t
                  IN  [t1 EXCEPT !.unsigned_read_write_addresses = Append(@, address)]
        ELSE IF PositionPubkey(srw, address) # 0 THEN t
        ELSE IF PositionPubkey(sro, address) # 0 THEN t
        ELSE IF Position(urw, address) # 0 THEN t
        ELSE IF Position(uro, address) # 0 THEN t
        ELSE [t EXCEPT !.unsigned_read_only_addresses = Append(@, address)]

\* The for_each of add_instruction over instruction.addresses[lo..hi], in
\* order.  The list is split in halves and the first half's table is bound
\* (as the one element of a set) before the second half is applied to it,
\* so that a long list does not nest deeply.
RECURSIVE add_instruction_addresses(_, _, _, _)
add_instruction_addresses(t, addresses, lo, hi) ==
    IF lo > hi THEN t
    ELSE IF lo = hi
    THEN IF addresses[lo][2]
         THEN add_signature(t, addresses[lo][1], addresses[lo][3])
         ELSE add_address(t, addresses[lo][1], addresses[lo][3])
    ELSE LET mid == (lo + hi) \div 2
         IN  CHOOSE t2 \in {add_instruction_addresses(t1, addresses, mid + 1, hi) :
                              t1 \in {add_instruction_addresses(t, addresses, lo, mid)}} : TRUE

\* A plausible slip: the instruction is inserted before the earlier ones.
add_instruction_at_front(t, instruction) ==
    LET t1 == add_address(t, instruction.program_address, FALSE)
        t2 == add_instruction_addresses(t1, instruction.addresses, 1, Len(instruction.addresses))
    IN  [t2 EXCEPT !.instructions = <<instruction>> \o @]

\* Transaction::add_instruction
add_instruction(t, instruction) ==
    LET t1 == add_address(t, instruction.program_address, FALSE)
        t2 == add_instruction_addresses(t1, instruction.addresses, 1, Len(instruction.addresses))
    IN  [t2 EXCEPT !.instructions = Append(@, instruction)]

ClearSignatures(s) == [i \in 1..Len(s) |-> PubkeyWithSignature(s[i].pubkey, None)]

\* A plausible slip: the signatures are cleared whatever the new value is.
set_recent_blockhash_always_clear(t, recent_blockhash) ==
    [t EXCEPT !.recent_blockhash = recent_blockhash,
              !.signed_read_write_addresses = ClearSignatures(@),
              !.signed_read_only_addresses = ClearSignatures(@)]

\* Transaction::set_recent_blockhash
set_recent_blockhash(t, recent_blockhash) ==
    IF recent_blockhash # t.recent_blockhash
    THEN [t EXCEPT !.recent_blockhash = recent_blockhash,
                   !.signed_read_write_addresses = ClearSignatures(@),
                   !.signed_read_only_addresses = ClearSignatures(@)]
    ELSE t

SignSlots(s, pubkey, signature) ==
    [i \in 1..Len(s) |-> IF s[i].pubkey = pubkey THEN PubkeyWithSignature(pubkey, signature) ELSE s[i]]

\* A plausible slip: the loop over signed_read_only_addresses is left out.
sign_read_write_only(t, pubkey, signature) ==
    [t EXCEPT !.signed_read_write_addresses = SignSlots(@, pubkey, signature)]

\* Transaction::sign (it returns Ok(()) on every path)
sign(t, pubkey, signature) ==
    [t EXCEPT !.signed_read_write_addresses = SignSlots(@, pubkey, signature),
              !.signed_read_only_addresses = SignSlots(@, pubkey, signature)]

\* What Transaction::sign returns: Ok(()) after both loops, whether or not
\* a slot matched.
sign_result(t, pubkey, signature) == [ok |-> TRUE, value |-> None]

-----------------------------------------------------------------------------
(* The wire codec: encoding *)

\* Result<T, Error>: Err carries the error's text.
Err(msg) == [ok |-> FALSE, value |-> msg]

IoError == Err("failed to fill whole buffer")

\* The concatenation of n-byte blocks, as successive write_all calls produce it.
Blocks(blocks, n) ==
    [i \in 1..(n * Len(blocks)) |-> blocks[((i - 1) \div n) + 1][((i - 1) % n) + 1]]

\* A plausible slip: the second byte never carries the continuation bit.
encode_compact_u16_no_continuation(u) ==
    LET v == u % 128
    IN  IF u > 127
        THEN LET u1 == u \div 128
                 v1 == u1 % 128
             IN  IF u1 > 127
                 THEN <<v + 128, v1, (u1 \div 128) % 256>>
                 ELSE <<v + 128, v1>>
        ELSE <<v>>

\* Transaction::encode_compact_u16, for u in 0..65535
encode_compact_u16(u) ==
    LET v == u % 128
    IN  IF u > 127
        THEN LET u1 == u \div 128
                 v1 == u1 % 128
             IN  IF u1 > 127
                 THEN <<v + 128, v1 + 128, (u1 \div 128) % 256>>
                 ELSE <<v + 128, v1>>
        ELSE <<v>>

\* The addresses of the table in the logical concatenation order.
AllAddresses(t) ==
    Pubkeys(t.signed_read_write_addresses) \o Pubkeys(t.signed_read_only_addresses)
        \o t.unsigned_read_write_addresses \o t.unsigned_read_only_addresses

\* Transaction::find_address_index: Some(index as u8), or -1 for None
find_address_index(t, address) ==
    LET srw == t.signed_read_write_addresses
        sro == t.signed_read_only_addresses
        urw == t.unsigned_read_write_addresses
        uro == t.unsigned_read_only_addresses
    IN  IF PositionPubkey(srw, address) # 0
        THEN (PositionPubkey(srw, address) - 1) % 256
        ELSE IF PositionPubkey(sro, address) # 0
        THEN (PositionPubkey(sro, address) - 1 + Len(srw)) % 256
        ELSE IF Position(urw, address) # 0
        THEN (Position(urw, address) - 1 + Len(srw) + Len(sro)) % 256
        ELSE IF Position(uro, address) # 0
        THEN (Position(uro, address) - 1 + Len(srw) + Len(sro) + Len(urw)) % 256
        ELSE -1

\* Transaction::find_address_at_index: Some((address, is_signed, is_read_write)) or None
find_address_at_index(t, index) ==
    LET srw == t.signed_read_write_addresses
        sro == t.signed_read_only_addresses
        urw == t.unsigned_read_write_addresses
        uro == t.unsigned_read_only_addresses
    IN  IF index < Len(srw)
        THEN <<srw[index + 1].pubkey, TRUE, TRUE>>
        ELSE IF index - Len(srw) < Len(sro)
        THEN <<sro[index - Len(srw) + 1].pubkey, TRUE, FALSE>>
        ELSE IF index - Len(srw) - Len(sro) < Len(urw)
        THEN <<urw[index - Len(srw) - Len(sro) + 1], FALSE, TRUE>>
        ELSE IF index - Len(srw) - Len(sro) - Len(urw) < Len(uro)
        THEN <<uro[index - Len(srw) - Len(sro) - Len(urw) + 1], FALSE, FALSE>>
        ELSE None

\* One instruction as message() writes it (the body of its loop).
encode_instruction(t, instruction) ==
    LET program_index == find_address_index(t, instruction.program_address)
        addresses == instruction.addresses
        indices == [k \in 1..Len(addresses) |-> find_address_index(t, addresses[k][1])]
        data_len == Len(instruction.data)
    IN  IF program_index = -1
        THEN Err("Invalid Transaction - program address not in address list")
        ELSE IF \E k \in 1..Len(addresses) : indices[k] = -1
        THEN Err("Invalid Transaction - address is not in address list")
        ELSE IF data_len > MAXIMUM_INSTRUCTION_DATA_COUNT
        THEN Err("Instruction data len too long")
        ELSE Ok(<<program_index>> \o encode_compact_u16(Len(addresses) % 65536) \o indices
                    \o encode_compact_u16(data_len) \o instruction.data)

\* The instruction loop of message(), from instruction i on.
RECURSIVE encode_instructions(_, _)
encode_instructions(t, i) ==
    IF i > Len(t.instructions) THEN Ok(<< >>)
    ELSE LET head == encode_instruction(t, t.instructions[i])
         IN  IF ~head.ok THEN head
             ELSE LET rest == encode_instructions(t, i + 1)
                  IN  IF ~rest.ok THEN rest ELSE Ok(head.value \o rest.value)

\* Transaction::message
message(t) ==
    LET nsrw == Len(t.signed_read_write_addresses)
        nsro == Len(t.signed_read_only_addresses)
        nurw == Len(t.unsigned_read_write_addresses)
        nuro == Len(t.unsigned_read_only_addresses)
        recent_blockhash == IF IsSome(t.recent_blockhash) THEN t.recent_blockhash
                            ELSE EMPTY_RECENT_BLOCKHASH
        instructions == encode_instructions(t, 1)
    IN  IF nsrw + nsro > U8_MAX THEN Err("Too many signed addresses")
        ELSE IF nsro > U8_MAX THEN Err("Too many read only addresses")
        ELSE IF Len(t.instructions) > U16_MAX THEN Err("Too many instructions")
        ELSE IF ~instructions.ok THEN instructions
        ELSE Ok(<<nsrw + nsro, nsro, nuro % 256>>
                    \o encode_compact_u16((nsrw + nsro + nurw + nuro) % 65536)
                    \o Blocks(AllAddresses(t), ADDRESS_BYTES)
                    \o recent_blockhash
                    \o encode_compact_u16(Len(t.instructions) % 65536)
                    \o instructions.value)

\* A plausible slip: the sentinel is written whether or not a signature is present.
encode_signature_always_empty(signature) ==
    EMPTY_SIGNATURE_BYTES

\* Transaction::encode_signature
encode_signature(signature) ==
    IF IsSome(signature) THEN signature ELSE EMPTY_SIGNATURE_BYTES

\* The signature slots of both signed partitions, in partition order.
Slots(t) ==
    LET signed == t.signed_read_write_addresses \o t.signed_read_only_addresses
    IN  [k \in 1..Len(signed) |-> encode_signature(signed[k].signature)]

\* Transaction::encode
encode(t) ==
    LET total_signatures == Len(t.signed_read_write_addresses) + Len(t.signed_read_only_addresses)
        m == message(t)
    IN  IF total_signatures > U16_MAX THEN Err("Too many addresses")
        ELSE IF ~m.ok THEN m
        ELSE Ok(encode_compact_u16(total_signatures) \o Blocks(Slots(t), SIGNATURE_BYTES) \o m.value)

-----------------------------------------------------------------------------
(* The wire codec: decoding.  A reader is the byte string r and the        *)
(* 1-based position pos of its next unread byte.                           *)

\* What a decoding step returns: a value and the position after it.
At(v, pos) == [ok |-> TRUE, value |-> v, pos |-> pos]

\* Transaction::read succeeds iff n more bytes are left.
CanRead(r, pos, n) == pos + n - 1 <= Len(r)

Bytes(r, pos, n) == SubSeq(r, pos, pos + n - 1)

\* Transaction::decode_compact_u16
decode_compact_u16(r, pos) ==
    IF ~CanRead(r, pos, 1) THEN IoError
    ELSE IF r[pos] >= 128
    THEN IF ~CanRead(r, pos + 1, 1) THEN IoError
         ELSE IF r[pos + 1] >= 128
         THEN IF ~CanRead(r, pos + 2, 1) THEN IoError
              ELSE At((r[pos] % 128) + ((r[pos + 1] % 128) * 128) + ((r[pos + 2] * 16384) % 65536), pos + 3)
         ELSE At((r[pos] % 128) + ((r[pos + 1] % 128) * 128), pos + 2)
    ELSE At(r[pos], pos + 1)

\* The 64-byte slot read by decode: all zero is an absent signature.
decode_signature(buf) == IF buf = EMPTY_SIGNATURE_BYTES THEN None ELSE buf

\* A plausible slip: every signed address takes the first supplied signature.
decode_signature_from_header_first(signatures, k, address) ==
    PubkeyWithSignature(address, IF 1 <= Len(signatures) THEN signatures[1] ELSE None)

\* Transaction::decode_signature_from_header for the k-th signed address:
\* the shared iterator yields the k-th supplied signature, or nothing.
decode_signature_from_header(signatures, k, address) ==
    PubkeyWithSignature(address, IF k <= Len(signatures) THEN signatures[k] ELSE None)

\* Transaction::decode_recent_blockhash
decode_recent_blockhash(buf) == IF buf = EMPTY_RECENT_BLOCKHASH THEN None ELSE buf

\* The instruction loop of decode: n instructions are still to be read.
RECURSIVE decode_instructions(_, _, _, _, _)
decode_instructions(r, pos, ret, n, acc) ==
    IF n = 0 THEN At(acc, pos)
    ELSE IF ~CanRead(r, pos, 1) THEN IoError
    ELSE IF find_address_at_index(ret, r[pos]) = None THEN Err("Invalid program id index")
    ELSE LET program_address == find_address_at_index(ret, r[pos])
             addresses_count == decode_compact_u16(r, pos + 1)
         IN  IF ~addresses_count.ok THEN addresses_count
             ELSE IF addresses_count.value > MAXIMUM_INSTRUCTION_ADDRESS_INDEX_COUNT
             THEN Err("Too many addresses in instruction")
             ELSE LET apos == addresses_count.pos
                      na == addresses_count.value
                      bad == {k \in 1..na : \/ ~CanRead(r, apos + k - 1, 1)
                                            \/ find_address_at_index(ret, r[apos + k - 1]) = None}
                      addresses == [k \in 1..na |-> find_address_at_index(ret, r[apos + k - 1])]
                      data_count == decode_compact_u16(r, apos + na)
                  IN  IF bad # {}
                      THEN IF \E k \in bad : ~CanRead(r, apos + k - 1, 1) /\ \A j \in bad : k <= j
                           THEN IoError
                           ELSE Err("Invalid address index referenced from instruction")
                      ELSE IF ~data_count.ok THEN data_count
                      ELSE IF data_count.value > MAXIMUM_INSTRUCTION_DATA_COUNT
                      THEN Err("Too many data bytes in instruction")
                      ELSE IF ~CanRead(r, data_count.pos, data_count.value) THEN IoError
                      ELSE decode_instructions(r, data_count.pos + data_count.value, ret, n - 1,
                               Append(acc, Instruction(program_address[1], addresses,
                                                       Bytes(r, data_count.pos, data_count.value))))

\* Transaction::decode, from the header on: the signatures have been read.
decode_message(r, pos, signatures) ==
    IF ~CanRead(r, pos, 3) THEN IoError
    ELSE LET total_signed_address_count == r[pos]
             signed_read_only_address_count == r[pos + 1]
             unsigned_read_only_address_count == r[pos + 2]
             signed_read_write_address_count == total_signed_address_count - signed_read_only_address_count
             minimum_address_count == total_signed_address_count + unsigned_read_only_address_count
             actual_address_count == decode_compact_u16(r, pos + 3)
         IN  IF total_signed_address_count > MAXIMUM_ADDRESSES_COUNT
             THEN Err("Too many signatures supplied")
             ELSE IF Len(signatures) > total_signed_address_count
             THEN Err("Too many signatures supplied")
             ELSE IF signed_read_only_address_count > total_signed_address_count
             THEN Err("Too many signed read only addresses")
             ELSE IF signed_read_write_address_count = 0
             THEN Err("Minimum signed address count of 1 required for fee payer")
             ELSE IF ~actual_address_count.ok THEN actual_address_count
             ELSE IF actual_address_count.value < minimum_address_count
             THEN Err("Too few addresses in header")
             ELSE LET unsigned_read_write_address_count == actual_address_count.value - minimum_address_count
                      apos == actual_address_count.pos
                      address(k) == Bytes(r, apos + ((k - 1) * ADDRESS_BYTES), ADDRESS_BYTES)
                      nsrw == signed_read_write_address_count
                      nsro == signed_read_only_address_count
                      nurw == unsigned_read_write_address_count
                      nuro == unsigned_read_only_address_count
                      bpos == apos + (actual_address_count.value * ADDRESS_BYTES)
                      ret == [signed_read_write_addresses |->
                                  [k \in 1..nsrw |-> decode_signature_from_header(signatures, k, address(k))],
                              signed_read_only_addresses |->
                                  [k \in 1..nsro |-> decode_signature_from_header(signatures, nsrw + k, address(nsrw + k))],
                              unsigned_read_write_addresses |->
                                  [k \in 1..nurw |-> address(nsrw + nsro + k)],
                              unsigned_read_only_addresses |->
                                  [k \in 1..nuro |-> address(nsrw + nsro + nurw + k)],
                              recent_blockhash |-> decode_recent_blockhash(Bytes(r, bpos, ADDRESS_BYTES)),
                              instructions |-> << >>]
                      instruction_count == decode_compact_u16(r, bpos + ADDRESS_BYTES)
                      instructions == decode_instructions(r, instruction_count.pos, ret,
                                                          instruction_count.value, << >>)
                  IN  IF ~CanRead(r, apos, (actual_address_count.value + 1) * ADDRESS_BYTES) THEN IoError
                      ELSE IF ~instruction_count.ok THEN instruction_count
                      ELSE IF ~instructions.ok THEN instructions
                      ELSE Ok([ret EXCEPT !.instructions = instructions.value])

\* Transaction::decode
decode(r) ==
    LET signatures_count == decode_compact_u16(r, 1)
    IN  IF ~signatures_count.ok THEN signatures_count
        ELSE IF signatures_count.value > MAXIMUM_ED25519_SIGNATURES_COUNT
        THEN Err("Too many signatures in transaction")
        ELSE IF ~CanRead(r, signatures_count.pos, signatures_count.value * SIGNATURE_BYTES)
        THEN IoError
        ELSE decode_message(r, signatures_count.pos + (signatures_count.value * SIGNATURE_BYTES),
                 [k \in 1..signatures_count.value |->
                     decode_signature(Bytes(r, signatures_count.pos + ((k - 1) * SIGNATURE_BYTES), SIGNATURE_BYTES))])

-----------------------------------------------------------------------------
(* Inputs of the builder *)

FeePayers == {Addr(1)}

Addresses == {Addr(1), Addr(2), Addr(3)}

\* Blockhashes handed to set_recent_blockhash: the all-zero digest and another.
Digests == {Digest(0), Digest(1)}

\* Signatures handed to sign; an ed25519 signature is never 64 zero bytes.
Signatures == {Sig(1)}

InstructionInputs ==
    {Instruction(Addr(3), <<<<Addr(1), FALSE, FALSE>>, <<Addr(2), TRUE, TRUE>>>>, <<1, 2>>),
     Instruction(Addr(2), <<<<Addr(3), FALSE, TRUE>>>>, << >>)}

-----------------------------------------------------------------------------
(* Inputs of the decoder: byte streams as another implementation may       *)
(* produce them, with a signature array that may be shorter or longer than *)
(* the header's signed count, optionally cut short.                        *)

WireSlots == UNION {[1..n -> {EMPTY_SIGNATURE_BYTES, Sig(1), Sig(2)}] : n \in 0..MaxWireSignatures}

\* No instruction (kind 0), or one whose program is the last address of the
\* table, with one account (index 0) and two data bytes.
WireInstructions(kind, address_count) ==
    IF kind = 0 THEN <<0>> ELSE <<1, (address_count + 255) % 256, 1, 0, 2, 7, 8>>

WireBytes(slots, signed, signed_read_only, unsigned_read_only, unsigned_read_write, blockhash, kind, cut) ==
    LET address_count == signed + unsigned_read_write + unsigned_read_only
        bytes == <<Len(slots)>> \o Blocks(slots, SIGNATURE_BYTES)
                     \o <<signed, signed_read_only, unsigned_read_only, address_count>>
                     \o Blocks([k \in 1..address_count |-> Addr(k)], ADDRESS_BYTES)
                     \o blockhash
                     \o WireInstructions(kind, address_count)
    IN  SubSeq(bytes, 1, Len(bytes) - cut)

WireInputs ==
    {WireBytes(slots, signed, sro, uro, urw, blockhash, kind, cut) :
        slots \in WireSlots, signed \in 0..3, sro \in 0..2, uro \in 0..1, urw \in 0..1,
        blockhash \in Digests, kind \in 0..1, cut \in 0..1}

-----------------------------------------------------------------------------
(* The state machine.  A transaction is either built by the encode         *)
(* subcommand (Transaction::new, then the mutators) or decoded from the    *)
(* standard input; the model applies the mutators to built transactions.   *)

Call(name, address, flag, arg) == [name |-> name, address |-> address, flag |-> flag, arg |-> arg]

InitNew ==
    /\ fee_payer \in FeePayers
    /\ tx = new(fee_payer)
    /\ op = Call("new", fee_payer, FALSE, None)
    /\ prev = None
    /\ wire = None
    /\ decoded = None
    /\ off_curve = {}
    /\ pda = None
    /\ enc_words = None
    /\ enc_encoding = None
    /\ enc_data_values = None
    /\ enc_data = None
    /\ enc_result = None

InitDecode ==
    /\ wire \in WireInputs
    /\ fee_payer = None
    /\ tx = None
    /\ op = Call("stdin", None, FALSE, None)
    /\ prev = None
    /\ decoded = None
    /\ off_curve = {}
    /\ pda = None
    /\ enc_words = None
    /\ enc_encoding = None
    /\ enc_data_values = None
    /\ enc_data = None
    /\ enc_result = None

Init == InitNew \/ InitDecode

\* The transaction was built by Transaction::new.
Built == op.name \notin {"stdin", "decode"}

AddSignature(pubkey, is_read_write) ==
    /\ Built
    /\ tx' = add_signature(tx, pubkey, is_read_write)
    /\ op' = Call("add_signature", pubkey, is_read_write, None)
    /\ prev' = tx
    /\ UNCHANGED <<fee_payer, wire, decoded, off_curve, pda, enc_words, enc_encoding, enc_data_values, enc_data, enc_result>>

AddAddress(address, is_read_write) ==
    /\ Built
    /\ tx' = add_address(tx, address, is_read_write)
    /\ op' = Call("add_address", address, is_read_write, None)
    /\ prev' = tx
    /\ UNCHANGED <<fee_payer, wire, decoded, off_curve, pda, enc_words, enc_encoding, enc_data_values, enc_data, enc_result>>

AddInstruction(instruction) ==
    /\ Built
    /\ Len(tx.instructions) < MaxInstructions
    /\ tx' = add_instruction(tx, instruction)
    /\ op' = Call("add_instruction", instruction.program_address, FALSE, instruction)
    /\ prev' = tx
    /\ UNCHANGED <<fee_payer, wire, decoded, off_curve, pda, enc_words, enc_encoding, enc_data_values, enc_data, enc_result>>

SetRecentBlockhash(recent_blockhash) ==
    /\ Built
    /\ tx' = set_recent_blockhash(tx, recent_blockhash)
    /\ op' = Call("set_recent_blockhash", None, FALSE, recent_blockhash)
    /\ prev' = tx
    /\ UNCHANGED <<fee_payer, wire, decoded, off_curve, pda, enc_words, enc_encoding, enc_data_values, enc_data, enc_result>>

Sign(pubkey, signature) ==
    /\ Built
    /\ tx' = sign(tx, pubkey, signature)
    /\ op' = Call("sign", pubkey, FALSE, signature)
    /\ prev' = tx
    /\ UNCHANGED <<fee_payer, wire, decoded, off_curve, pda, enc_words, enc_encoding, enc_data_values, enc_data, enc_result>>

Decode ==
    /\ op.name = "stdin"
    /\ decoded' = decode(wire)
    /\ tx' = IF decoded'.ok THEN decoded'.value ELSE tx
    /\ op' = Call("decode", None, FALSE, None)
    /\ prev' = tx
    /\ UNCHANGED <<fee_payer, wire, off_curve, pda, enc_words, enc_encoding, enc_data_values, enc_data, enc_result>>

Next ==
    \/ \E a \in Addresses, w \in BOOLEAN : AddSignature(a, w)
    \/ \E a \in Addresses, w \in BOOLEAN : AddAddress(a, w)
    \/ \E i \in InstructionInputs : AddInstruction(i)
    \/ \E h \in Digests : SetRecentBlockhash(h)
    \/ \E a \in Addresses, s \in Signatures : Sign(a, s)
    \/ Decode

Spec == Init /\ [][Next]_vars

-----------------------------------------------------------------------------
(* The builder driven to the limits of the codec: one partition is filled  *)
(* with fresh addresses, or one large instruction is added.                *)

\* An address no partition holds yet: the fee payer is Addr(1).
FreshAddress == Addr(Len(AllAddresses(tx)) + 1)

\* Only signed_read_write holds an entry (the fee payer) besides partition p.
OnlyPartition(p) ==
    /\ Len(tx.instructions) = 0
    /\ Len(AllAddresses(tx)) < MaxFill
    /\ p # "signed_read_write" => Len(tx.signed_read_write_addresses) = 1
    /\ p # "signed_read_only" => Len(tx.signed_read_only_addresses) = 0
    /\ p # "unsigned_read_write" => Len(tx.unsigned_read_write_addresses) = 0
    /\ p # "unsigned_read_only" => Len(tx.unsigned_read_only_addresses) = 0

FillSignedReadWrite == OnlyPartition("signed_read_write") /\ AddSignature(FreshAddress, TRUE)

FillSignedReadOnly == OnlyPartition("signed_read_only") /\ AddSignature(FreshAddress, FALSE)

FillUnsignedReadWrite == OnlyPartition("unsigned_read_write") /\ AddAddress(FreshAddress, TRUE)

FillUnsignedReadOnly == OnlyPartition("unsigned_read_only") /\ AddAddress(FreshAddress, FALSE)

\* An instruction of the fee payer's with the given numbers of account
\* references and data bytes.
LargeInstruction(accounts, data) ==
    Instruction(Addr(1), [k \in 1..accounts |-> <<Addr(1), FALSE, FALSE>>], [k \in 1..data |-> 0])

LargeInstructionInputs ==
    {LargeInstruction(accounts, data) :
        accounts \in {0, MAXIMUM_INSTRUCTION_ADDRESS_INDEX_COUNT, MAXIMUM_INSTRUCTION_ADDRESS_INDEX_COUNT + 1},
        data \in {0, MAXIMUM_INSTRUCTION_DATA_COUNT, MAXIMUM_INSTRUCTION_DATA_COUNT + 1}}

AddLargeInstruction ==
    /\ Len(AllAddresses(tx)) = 1
    /\ \E i \in LargeInstructionInputs : AddInstruction(i)

\* An instruction whose program is the fee payer and whose one account is
\* the address the table holds last.
AddInstructionOfLastAddress ==
    /\ Len(AllAddresses(tx)) > 1
    /\ Len(tx.instructions) = 0
    /\ AddInstruction(Instruction(Addr(1), <<<<AllAddresses(tx)[Len(AllAddresses(tx))], FALSE, FALSE>>>>, << >>))

NextLimits ==
    \/ FillSignedReadWrite
    \/ FillSignedReadOnly
    \/ FillUnsignedReadWrite
    \/ FillUnsignedReadOnly
    \/ AddLargeInstruction
    \/ AddInstructionOfLastAddress

SpecLimits == InitNew /\ [][NextLimits]_vars

-----------------------------------------------------------------------------
(* What the claims speak of *)

Contains(s, x) == \E i \in 1..Len(s) : s[i] = x

\* The partitions that hold address a.
PartitionsOf(t, a) ==
    {p \in {"signed_read_write", "signed_read_only", "unsigned_read_write", "unsigned_read_only"} :
        \/ p = "signed_read_write" /\ Contains(Pubkeys(t.signed_read_write_addresses), a)
        \/ p = "signed_read_only" /\ Contains(Pubkeys(t.signed_read_only_addresses), a)
        \/ p = "unsigned_read_write" /\ Contains(t.unsigned_read_write_addresses, a)
        \/ p = "unsigned_read_only" /\ Contains(t.unsigned_read_only_addresses, a)}

RankOf(p) ==
    CASE p = "signed_read_write" -> 4
      [] p = "signed_read_only" -> 3
      [] p = "unsigned_read_write" -> 2
      [] p = "unsigned_read_only" -> 1

\* The rank of the strongest (Highest) and weakest (Lowest) partition holding a; 0 when absent.
Highest(t, a) ==
    IF PartitionsOf(t, a) = {} THEN 0
    ELSE CHOOSE r \in 1..4 : /\ \E p \in PartitionsOf(t, a) : RankOf(p) = r
                             /\ \A p \in PartitionsOf(t, a) : RankOf(p) <= r

Lowest(t, a) ==
    IF PartitionsOf(t, a) = {} THEN 0
    ELSE CHOOSE r \in 1..4 : /\ \E p \in PartitionsOf(t, a) : RankOf(p) = r
                             /\ \A p \in PartitionsOf(t, a) : RankOf(p) >= r

\* The signed entries of both signed partitions, in partition order.
Signed(t) == t.signed_read_write_addresses \o t.signed_read_only_addresses

HasSignature(t) == \E k \in 1..Len(Signed(t)) : IsSome(Signed(t)[k].signature)

NoSignature(t) == \A k \in 1..Len(Signed(t)) : Signed(t)[k].signature = None

\* The four partitions without their signature slots.
Table(t) ==
    <<Pubkeys(t.signed_read_write_addresses), Pubkeys(t.signed_read_only_addresses),
      t.unsigned_read_write_addresses, t.unsigned_read_only_addresses>>

-----------------------------------------------------------------------------
(* Claims *)

\* C1: in a transaction built by new and the add_* calls, every address
\* occurs in at most one partition and at most once in it.  (Stated as the
\* claim has it; add_signature's read-write branch leaves an unsigned
\* read-only occurrence behind.)
C1_AddressInAtMostOnePartition ==
    Built => \A i, j \in 1..Len(AllAddresses(tx)) :
                 AllAddresses(tx)[i] = AllAddresses(tx)[j] => i = j

\* C2: the fee payer given to new is the first entry of signed_read_write
\* and occurs nowhere else in the table, after any sequence of mutators; a
\* transaction returned by a successful decode has a non-empty
\* signed_read_write partition.
C2_FeePayerFirstAndUnique ==
    /\ Built =>
          /\ Len(tx.signed_read_write_addresses) >= 1
          /\ tx.signed_read_write_addresses[1].pubkey = fee_payer
          /\ \A i \in 2..Len(AllAddresses(tx)) : AllAddresses(tx)[i] # fee_payer
    /\ (op.name = "decode" /\ decoded.ok) => Len(tx.signed_read_write_addresses) >= 1

\* C2's case: an instruction that mentions the fee payer has been added to
\* a table that holds further signers.
C2_Witness ==
    /\ op.name = "add_instruction"
    /\ \E k \in 1..Len(op.arg.addresses) : op.arg.addresses[k][1] = fee_payer
    /\ Len(tx.signed_read_write_addresses) >= 2
    /\ Len(tx.signed_read_only_addresses) >= 1

\* C3: decode(encode(t)) succeeds and equals t in all fields, whenever
\* encode succeeds.  (Stated as the claim has it.)
C3_RoundTrip ==
    (Built /\ encode(tx).ok) => decode(encode(tx).value) = Ok(tx)

\* C4: set_recent_blockhash(h) empties every signature slot when h differs
\* from the current recent blockhash, and changes nothing when it is equal.
C4_SetRecentBlockhash ==
    op.name = "set_recent_blockhash" =>
        IF prev.recent_blockhash # op.arg
        THEN /\ tx.recent_blockhash = op.arg
             /\ NoSignature(tx)
             /\ Table(tx) = Table(prev)
             /\ tx.instructions = prev.instructions
        ELSE tx = prev

\* C4's case: set_recent_blockhash(h1); sign; set_recent_blockhash(h2) with
\* h1 # h2 has emptied a filled slot.
C4_Witness ==
    /\ op.name = "set_recent_blockhash"
    /\ IsSome(prev.recent_blockhash)
    /\ prev.recent_blockhash # op.arg
    /\ HasSignature(prev)
    /\ NoSignature(tx)

\* C5: after add_signature(A, write) the address A is in signed_read_write
\* if write, or if A was in signed_read_write or unsigned_read_write, and
\* otherwise in signed_read_only; and in no other partition.  (Stated as
\* the claim has it.)
C5_AddSignaturePlacement ==
    op.name = "add_signature" =>
        PartitionsOf(tx, op.address) =
            IF \/ op.flag
               \/ "signed_read_write" \in PartitionsOf(prev, op.address)
               \/ "unsigned_read_write" \in PartitionsOf(prev, op.address)
            THEN {"signed_read_write"}
            ELSE {"signed_read_only"}

\* C6: add_address never demotes (a signed address stays signed, a
\* read-write one stays read-write; after add_signature(A, true),
\* add_address(A, false) leaves A in signed_read_write), and over
\* add_signature, add_address and add_instruction no address's rank
\* decreases.
C6_NeverDemotes ==
    /\ op.name \in {"add_signature", "add_address", "add_instruction"} =>
          \A a \in Addresses : /\ Highest(tx, a) >= Highest(prev, a)
                               /\ Lowest(tx, a) >= Lowest(prev, a)
    /\ op.name = "add_address" =>
          /\ Highest(prev, op.address) >= 3 => Highest(tx, op.address) >= 3
          /\ Highest(prev, op.address) \in {2, 4} => Highest(tx, op.address) \in {2, 4}
          /\ (~op.flag /\ Highest(prev, op.address) = 4) => tx = prev

\* C6's case: a read-only mention of an address that is unsigned read-write.
C6_Witness ==
    /\ op.name = "add_address"
    /\ ~op.flag
    /\ PartitionsOf(prev, op.address) = {"unsigned_read_write"}
    /\ PartitionsOf(tx, op.address) = {"unsigned_read_write"}

\* C7: message() returns an error whenever the number of signed
\* addresses, of signed read-only addresses or of unsigned read-only
\* addresses exceeds 255, and never writes a header byte that is a
\* truncation of the count.  (Stated as the claim has it.)
C7_HeaderCountsChecked ==
    LET signed == Len(Signed(tx))
        signed_read_only == Len(tx.signed_read_only_addresses)
        unsigned_read_only == Len(tx.unsigned_read_only_addresses)
    IN  /\ (signed > 255 \/ signed_read_only > 255 \/ unsigned_read_only > 255) => ~message(tx).ok
        /\ message(tx).ok => /\ message(tx).value[1] = signed
                             /\ message(tx).value[2] = signed_read_only
                             /\ message(tx).value[3] = unsigned_read_only

\* C8: encode writes the number of signed addresses, then exactly that
\* many 64-byte slots in partition order (the k-th slot is the k-th signed
\* address's signature, or 64 zero bytes when it has none), then the bytes
\* of message(); it succeeds whenever message() does.
C8_EncodeLayout ==
    Built =>
        LET e == encode(tx)
            m == message(tx)
            n == Len(Signed(tx))
            slot(k) == SubSeq(e.value, 2 + ((k - 1) * 64), 1 + (k * 64))
        IN  /\ e.ok = m.ok
            /\ e.ok =>
                  /\ decode_compact_u16(e.value, 1) = At(n, 2)
                  /\ \A k \in 1..n :
                        slot(k) = IF IsSome(Signed(tx)[k].signature) THEN Signed(tx)[k].signature
                                  ELSE [i \in 1..64 |-> 0]
                  /\ SubSeq(e.value, 2 + (n * 64), Len(e.value)) = m.value

\* C8's case: a transaction with a filled slot after an empty one, in both
\* signed partitions, has been encoded.
C8_Witness ==
    /\ Built
    /\ encode(tx).ok
    /\ Len(tx.signed_read_write_addresses) >= 2
    /\ Len(tx.signed_read_only_addresses) >= 1
    /\ tx.signed_read_write_addresses[1].signature = None
    /\ IsSome(tx.signed_read_write_addresses[2].signature)
    /\ IsSome(tx.signed_read_only_addresses[1].signature)

\* C9: a transaction for which encode returns Ok has at most 18 signed
\* addresses, at most 37 addresses, and in every instruction at most 1190
\* account references and at most 1192 data bytes.  (Stated as the claim
\* has it.)
C9_PacketLimits ==
    encode(tx).ok =>
        /\ Len(Signed(tx)) <= 18
        /\ Len(AllAddresses(tx)) <= 37
        /\ \A i \in 1..Len(tx.instructions) :
              /\ Len(tx.instructions[i].addresses) <= 1190
              /\ Len(tx.instructions[i].data) <= 1192

\* C10: decode rejects a signature count greater than the header's number
\* of signed addresses; with a count n that is smaller it behaves as on the
\* same stream with the array completed by empty slots, and gives the n
\* supplied signatures, in order, to the first n signed addresses
\* (signed_read_write first), every later one having none; an all-zero
\* slot decodes as absent.
C10_ShortSignatureArray ==
    (op.name = "decode" /\ Len(wire) >= 2 + (wire[1] * 64)) =>
        LET n == wire[1]
            total == wire[2 + (n * 64)]
            slot(k) == SubSeq(wire, 2 + ((k - 1) * 64), 1 + (k * 64))
            completed == <<total>> \o SubSeq(wire, 2, 1 + (n * 64))
                             \o [i \in 1..((total - n) * 64) |-> 0]
                             \o SubSeq(wire, 2 + (n * 64), Len(wire))
        IN  /\ n > total => ~decoded.ok
            /\ (n <= total /\ total <= MAXIMUM_ED25519_SIGNATURES_COUNT) => decoded = decode(completed)
            /\ decoded.ok =>
                  /\ n <= total
                  /\ Len(Signed(tx)) = total
                  /\ \A k \in 1..total :
                        Signed(tx)[k].signature =
                            IF k <= n /\ slot(k) # [i \in 1..64 |-> 0] THEN slot(k) ELSE None

\* C10's case: a stream with fewer signatures than signed addresses, the
\* first slot empty and the second filled, has been decoded into a table
\* with both signed partitions.
C10_Witness ==
    /\ op.name = "decode"
    /\ decoded.ok
    /\ wire[1] = 2
    /\ Len(tx.signed_read_write_addresses) = 2
    /\ Len(tx.signed_read_only_addresses) = 1
    /\ tx.signed_read_write_addresses[1].signature = None
    /\ tx.signed_read_write_addresses[2].signature = Sig(2)
    /\ tx.signed_read_only_addresses[1].signature = None

-----------------------------------------------------------------------------
(* The decoder driven to the packet limits: streams that declare counts at *)
(* and above MAXIMUM_ED25519_SIGNATURES_COUNT, MAXIMUM_ADDRESSES_COUNT,     *)
(* MAXIMUM_INSTRUCTION_ADDRESS_INDEX_COUNT and                              *)
(* MAXIMUM_INSTRUCTION_DATA_COUNT, with every counted item present.         *)

\* A stream with the given numbers of signatures, signed (read-write)
\* addresses, unsigned read-only and read-write addresses, and one
\* instruction of the first address with the given numbers of account
\* indices (all 0) and data bytes.
LimitWireBytes(signatures, signed, unsigned_read_only, unsigned_read_write, accounts, data) ==
    LET address_count == signed + unsigned_read_write + unsigned_read_only
    IN  encode_compact_u16(signatures) \o Blocks([k \in 1..signatures |-> Sig(1)], SIGNATURE_BYTES)
            \o <<signed, 0, unsigned_read_only>> \o encode_compact_u16(address_count)
            \o Blocks([k \in 1..address_count |-> Addr(k)], ADDRESS_BYTES)
            \o Digest(1)
            \o <<1, 0>> \o encode_compact_u16(accounts) \o [k \in 1..accounts |-> 0]
            \o encode_compact_u16(data) \o [k \in 1..data |-> 0]

LimitWireInputs ==
    {LimitWireBytes(signatures, signed, uro, urw, accounts, data) :
        signatures \in {0, 1, MAXIMUM_ED25519_SIGNATURES_COUNT, MAXIMUM_ED25519_SIGNATURES_COUNT + 1},
        signed \in {1, MAXIMUM_ED25519_SIGNATURES_COUNT + 1, MAXIMUM_ADDRESSES_COUNT, MAXIMUM_ADDRESSES_COUNT + 1},
        uro \in {0, 1, MAXIMUM_ADDRESSES_COUNT},
        urw \in {0, 1},
        accounts \in {0, MAXIMUM_INSTRUCTION_ADDRESS_INDEX_COUNT, MAXIMUM_INSTRUCTION_ADDRESS_INDEX_COUNT + 1},
        data \in {0, MAXIMUM_INSTRUCTION_DATA_COUNT, MAXIMUM_INSTRUCTION_DATA_COUNT + 1}}

InitDecodeLimits ==
    /\ wire \in LimitWireInputs
    /\ fee_payer = None
    /\ tx = None
    /\ op = Call("stdin", None, FALSE, None)
    /\ prev = None
    /\ decoded = None
    /\ off_curve = {}
    /\ pda = None
    /\ enc_words = None
    /\ enc_encoding = None
    /\ enc_data_values = None
    /\ enc_data = None
    /\ enc_result = None

NextDecodeLimits == Decode

SpecDecodeLimits == InitDecodeLimits /\ [][NextDecodeLimits]_vars

\* C11: decode returns an error for any input that declares more than 18
\* signatures, more than 37 addresses in total, an instruction with more
\* than 1190 account indices or one with more than 1192 data bytes: a
\* stream it accepts stays within all four limits.  (Stated as the claim
\* has it; only the header's signed count is compared with 37.)
C11_DecodeChecksLimits ==
    (op.name = "decode" /\ decoded.ok) =>
        /\ decode_compact_u16(wire, 1).value <= 18
        /\ Len(AllAddresses(tx)) <= 37
        /\ \A i \in 1..Len(tx.instructions) :
              /\ Len(tx.instructions[i].addresses) <= 1190
              /\ Len(tx.instructions[i].data) <= 1192

-----------------------------------------------------------------------------
(* The compact-u16 codec on its own: every u16 is written, followed or not *)
(* by a further byte of the stream, and read back.                         *)

\* What may follow a compact-u16 in the stream.
FollowingBytes == {<< >>, <<255>>}

InitCompactU16 ==
    /\ wire = None
    /\ decoded = None
    /\ off_curve = {}
    /\ pda = None
    /\ enc_words = None
    /\ enc_encoding = None
    /\ enc_data_values = None
    /\ enc_data = None
    /\ enc_result = None
    /\ op = Call("compact_u16", None, FALSE, None)
    /\ tx = None
    /\ fee_payer = None
    /\ prev = None

EncodeCompactU16 ==
    /\ op.name = "compact_u16"
    /\ \E u \in 0..U16_MAX, following \in FollowingBytes :
          /\ wire' = encode_compact_u16(u) \o following
          /\ op' = Call("encode_compact_u16", None, FALSE, u)
    /\ UNCHANGED <<tx, fee_payer, prev, decoded, off_curve, pda, enc_words, enc_encoding, enc_data_values, enc_data, enc_result>>

DecodeCompactU16 ==
    /\ op.name = "encode_compact_u16"
    /\ decoded' = decode_compact_u16(wire, 1)
    /\ op' = Call("decode_compact_u16", None, FALSE, op.arg)
    /\ UNCHANGED <<tx, fee_payer, prev, wire, off_curve, pda, enc_words, enc_encoding, enc_data_values, enc_data, enc_result>>

NextCompactU16 ==
    \/ EncodeCompactU16
    \/ DecodeCompactU16

SpecCompactU16 == InitCompactU16 /\ [][NextCompactU16]_vars

\* C12: for every v in 0..65535, encode_compact_u16(v) writes 1 byte when
\* v <= 127, 2 bytes when v <= 16383 and 3 bytes otherwise, with 7 data bits
\* and a continuation bit in the first two bytes (0 -> 00, 127 -> 7F,
\* 128 -> 80 01, 16383 -> FF 7F, 16384 -> 80 80 01, 65535 -> FF FF 03), and
\* decode_compact_u16 on those bytes consumes exactly them and returns v.
C12_CompactU16RoundTrip ==
    op.name \in {"encode_compact_u16", "decode_compact_u16"} =>
        LET v == op.arg
            n == IF v <= 127 THEN 1 ELSE IF v <= 16383 THEN 2 ELSE 3
            written == SubSeq(wire, 1, n)
        IN  /\ written = encode_compact_u16(v)
            /\ Len(wire) \in {n, n + 1}
            /\ written[1] = (v % 128) + (IF n > 1 THEN 128 ELSE 0)
            /\ n > 1 => written[2] = ((v \div 128) % 128) + (IF n > 2 THEN 128 ELSE 0)
            /\ n > 2 => written[3] = v \div 16384
            /\ v = 0 => written = <<0>>
            /\ v = 127 => written = <<127>>
            /\ v = 128 => written = <<128, 1>>
            /\ v = 16383 => written = <<255, 127>>
            /\ v = 16384 => written = <<128, 128, 1>>
            /\ v = 65535 => written = <<255, 255, 3>>
            /\ op.name = "decode_compact_u16" => decoded = At(v, n + 1)

\* C12's case: the largest value has been written in three bytes, with a
\* byte of the stream after it, and read back.
C12_Witness ==
    /\ op.name = "decode_compact_u16"
    /\ op.arg = 65535
    /\ wire = <<255, 255, 3, 255>>
    /\ decoded = At(65535, 4)

\* The addresses instruction i refers to: its program and its accounts.
Referenced(t, i) ==
    {t.instructions[i].program_address}
        \cup {t.instructions[i].addresses[k][1] : k \in 1..Len(t.instructions[i].addresses)}

\* C13: in a transaction built with new and add_instruction, message()
\* finds an index for the program and for every account of every
\* instruction; each index i is within 0 <= i < address count, is the first
\* position of the address in signed_read_write || signed_read_only ||
\* unsigned_read_write || unsigned_read_only whatever flags the instruction
\* asked for, and find_address_at_index(i) is the same address.  (Stated as
\* the claim has it; the index is cast to u8.)
C13_InstructionIndices ==
    Built =>
        /\ message(tx) # Err("Invalid Transaction - program address not in address list")
        /\ message(tx) # Err("Invalid Transaction - address is not in address list")
        /\ \A i \in 1..Len(tx.instructions) : \A a \in Referenced(tx, i) :
              LET index == find_address_index(tx, a)
              IN  /\ 0 <= index
                  /\ index < Len(AllAddresses(tx))
                  /\ index + 1 = Position(AllAddresses(tx), a)
                  /\ find_address_at_index(tx, index) # None
                  /\ find_address_at_index(tx, index)[1] = a

-----------------------------------------------------------------------------
(* needed_signatures and the Base58 text it sorts by.  A Base58 string is  *)
(* modelled as the sequence of its digits' values 0..57; the alphabet      *)
(* 123456789ABCDEFGHJKLMNPQRSTUVWXYZabcdefghijkmnopqrstuvwxyz is in        *)
(* ascending character order, so strings compare as their digit sequences. *)

\* The number of leading zero bytes of s.
LeadingZeros(s) ==
    IF \A i \in 1..Len(s) : s[i] = 0 THEN Len(s)
    ELSE (CHOOSE i \in 1..Len(s) : s[i] # 0 /\ \A j \in 1..(i - 1) : s[j] = 0) - 1

Strip(s) == SubSeq(s, LeadingZeros(s) + 1, Len(s))

\* One long division by 58 of the big-endian number s, from byte i on:
\* <<quotient bytes, remainder>>.
RECURSIVE DivMod58(_, _, _, _)
DivMod58(s, i, carry, quotient) ==
    IF i > Len(s) THEN <<quotient, carry>>
    ELSE DivMod58(s, i + 1, ((carry * 256) + s[i]) % 58,
                  Append(quotient, ((carry * 256) + s[i]) \div 58))

\* The Base58 digits of the big-endian number s, which has no leading zero.
RECURSIVE Base58Digits(_)
Base58Digits(s) ==
    IF s = << >> THEN << >>
    ELSE LET d == DivMod58(s, 1, 0, << >>)
         IN  Append(Base58Digits(Strip(d[1])), d[2])

\* bs58::encode: one digit '1' (value 0) for every leading zero byte, then
\* the digits of the number.
bs58_encode(bytes) == [i \in 1..LeadingZeros(bytes) |-> 0] \o Base58Digits(Strip(bytes))

\* Display for Pubkey
format(pubkey) == bs58_encode(pubkey)

\* String ordering: a < b, lexicographically.
StrLess(a, b) ==
    LET differ == {k \in 1..Len(a) : k > Len(b) \/ a[k] # b[k]}
        first == CHOOSE k \in differ : \A j \in differ : k <= j
    IN  IF differ = {} THEN Len(a) < Len(b)
        ELSE first <= Len(b) /\ a[first] < b[first]

\* Vec::sort_by_key with the Base58 text as the key (a stable sort): the
\* last element is inserted after every element whose key is not greater.
RECURSIVE sort_by_key(_)
sort_by_key(v) ==
    IF Len(v) <= 1 THEN v
    ELSE LET x == v[Len(v)]
             front == sort_by_key(SubSeq(v, 1, Len(v) - 1))
             after == {i \in 1..Len(front) : StrLess(format(x), format(front[i]))}
             at == IF after = {} THEN Len(front) + 1 ELSE CHOOSE i \in after : \A j \in after : i <= j
         IN  SubSeq(front, 1, at - 1) \o <<x>> \o SubSeq(front, at, Len(front))

\* Vec::dedup: consecutive equal elements are reduced to the first.
RECURSIVE dedup(_)
dedup(v) ==
    IF Len(v) <= 1 THEN v
    ELSE LET front == dedup(SubSeq(v, 1, Len(v) - 1))
         IN  IF v[Len(v)] = v[Len(v) - 1] THEN front ELSE Append(front, v[Len(v)])

\* The pubkeys of the entries of s that have no signature, in order.
Unsigned(s) == Pubkeys(SelectSeq(s, LAMBDA a : ~IsSome(a.signature)))

\* A plausible slip: the signed read-only partition is not looked at.
needed_signatures_read_write_only(t) ==
    dedup(sort_by_key(Unsigned(t.signed_read_write_addresses)))

\* A plausible slip: the pubkeys are returned in table order.
needed_signatures_unsorted(t) ==
    dedup(Unsigned(t.signed_read_write_addresses) \o Unsigned(t.signed_read_only_addresses))

\* Transaction::needed_signatures
needed_signatures(t) ==
    dedup(sort_by_key(Unsigned(t.signed_read_write_addresses) \o Unsigned(t.signed_read_only_addresses)))

-----------------------------------------------------------------------------
(* Signers: transactions whose signed addresses are keys with differing    *)
(* Base58 texts, built by new, add_signature and sign, or decoded from a   *)
(* stream that may name a key twice.                                       *)

\* The 32-byte key that is zero except for its last byte.
Key(n) == [i \in 1..ADDRESS_BYTES |-> IF i = ADDRESS_BYTES THEN n ELSE 0]

\* In Base58, Key(57) is 31 times '1' then 'z', Key(58) is 31 times '1'
\* then '21', and Addr(1) has no leading '1'.
SignerKeys == {Key(57), Key(58), Addr(1)}

\* A stream of signed addresses only (the last signed_read_only of them
\* read-only), with a signature array for the first of them.
SignerWireBytes(keys, slots, signed_read_only) ==
    <<Len(slots)>> \o Blocks(slots, SIGNATURE_BYTES)
        \o <<Len(keys), signed_read_only, 0, Len(keys)>>
        \o Blocks(keys, ADDRESS_BYTES) \o Digest(1) \o <<0>>

SignerWireInputs ==
    UNION {{SignerWireBytes(keys, slots, signed_read_only) :
                keys \in [1..n -> SignerKeys],
                slots \in UNION {[1..m -> {EMPTY_SIGNATURE_BYTES, Sig(1)}] : m \in 0..n},
                signed_read_only \in 0..(n - 1)} : n \in 1..MaxWireSignatures}

InitSignersNew ==
    /\ fee_payer \in SignerKeys
    /\ tx = new(fee_payer)
    /\ op = Call("new", fee_payer, FALSE, None)
    /\ prev = None
    /\ wire = None
    /\ decoded = None
    /\ off_curve = {}
    /\ pda = None
    /\ enc_words = None
    /\ enc_encoding = None
    /\ enc_data_values = None
    /\ enc_data = None
    /\ enc_result = None

InitSignersDecode ==
    /\ wire \in SignerWireInputs
    /\ fee_payer = None
    /\ tx = None
    /\ op = Call("stdin", None, FALSE, None)
    /\ prev = None
    /\ decoded = None
    /\ off_curve = {}
    /\ pda = None
    /\ enc_words = None
    /\ enc_encoding = None
    /\ enc_data_values = None
    /\ enc_data = None
    /\ enc_result = None

InitSigners == InitSignersNew \/ InitSignersDecode

NextSigners ==
    \/ \E a \in SignerKeys, w \in BOOLEAN : AddSignature(a, w)
    \/ \E a \in SignerKeys, s \in Signatures : Sign(a, s)
    \/ Decode

SpecSigners == InitSigners /\ [][NextSigners]_vars

\* The pubkeys of the signed addresses whose signature slot is empty.
Missing(t) == {Signed(t)[k].pubkey : k \in {j \in 1..Len(Signed(t)) : Signed(t)[j].signature = None}}

\* C14: needed_signatures() returns exactly the pubkeys of the signed
\* addresses (of both signed partitions) whose signature slot is empty,
\* each once, in ascending order of their Base58 text; it is empty if and
\* only if every signed address has a signature.
C14_NeededSignatures ==
    op.name # "stdin" =>
        LET needed == needed_signatures(tx)
        IN  /\ {needed[i] : i \in 1..Len(needed)} = Missing(tx)
            /\ \A i, j \in 1..Len(needed) : i < j => StrLess(format(needed[i]), format(needed[j]))
            /\ needed = << >> <=> \A k \in 1..Len(Signed(tx)) : IsSome(Signed(tx)[k].signature)

\* C14's case: two signers are missing, in table order Key(57) then
\* Key(58) and in Base58 order the other way round, a third has signed.
C14_Witness ==
    /\ op.name = "sign"
    /\ Pubkeys(Signed(tx)) = <<Key(57), Key(58), Addr(1)>>
    /\ IsSome(Signed(tx)[3].signature)
    /\ needed_signatures(tx) = <<Key(58), Key(57)>>

-----------------------------------------------------------------------------

\* The slots of s after sign(pubkey, signature), as the claim has them.
SlotsAfterSign(s, pubkey, signature) ==
    [k \in 1..Len(s) |-> IF s[k].pubkey = pubkey
                         THEN [pubkey |-> s[k].pubkey, signature |-> signature]
                         ELSE s[k]]

\* C15: sign(pubkey, sig) sets to sig every signature slot, of
\* signed_read_write and of signed_read_only, whose pubkey is the argument,
\* and leaves unchanged every other slot, the membership and order of the
\* four partitions, the recent blockhash and the instructions.
C15_SignFrame ==
    op.name = "sign" =>
        /\ tx.signed_read_write_addresses = SlotsAfterSign(prev.signed_read_write_addresses, op.address, op.arg)
        /\ tx.signed_read_only_addresses = SlotsAfterSign(prev.signed_read_only_addresses, op.address, op.arg)
        /\ Table(tx) = Table(prev)
        /\ tx.unsigned_read_write_addresses = prev.unsigned_read_write_addresses
        /\ tx.unsigned_read_only_addresses = prev.unsigned_read_only_addresses
        /\ tx.recent_blockhash = prev.recent_blockhash
        /\ tx.instructions = prev.instructions

\* C15's case: a signed read-only address has been signed in a transaction
\* with a blockhash, an instruction and another signer whose slot stays
\* empty.
C15_Witness ==
    /\ op.name = "sign"
    /\ \E k \in 1..Len(tx.signed_read_only_addresses) :
          /\ prev.signed_read_only_addresses[k] = PubkeyWithSignature(op.address, None)
          /\ tx.signed_read_only_addresses[k] = PubkeyWithSignature(op.address, op.arg)
    /\ \E k \in 1..Len(tx.signed_read_write_addresses) :
          /\ tx.signed_read_write_addresses[k].pubkey # op.address
          /\ tx.signed_read_write_addresses[k].signature = None
    /\ IsSome(tx.recent_blockhash)
    /\ Len(tx.instructions) >= 1

\* C16: signing with a key whose pubkey matches no signed address of the
\* transaction is reported as an error: sign does not return success.
\* (Stated as the claim has it; sign returns Ok(()) on every path.)
C16_SignNoMatchingSigner ==
    (op.name = "sign" /\ ~Contains(Pubkeys(Signed(prev)), op.address)) =>
        ~sign_result(prev, op.address, op.arg).ok

-----------------------------------------------------------------------------
(* The submit subcommand (do_submit): the transaction is decoded from the  *)
(* standard input, checked for missing signatures, and only then encoded   *)
(* and posted as a sendTransaction request.  op.name is the position of    *)
(* the subcommand, op.arg the error's signer list or the request's bytes.  *)

\* do_submit after a successful decode: the sanity check.  It ends the
\* subcommand with the error that lists the missing signers, or goes on.
SubmitCheck ==
    /\ op.name = "decode"
    /\ decoded.ok
    /\ LET needed == needed_signatures(tx)
       IN  op' = IF needed # << >>
                 THEN Call("submit_error", None, FALSE, [k \in 1..Len(needed) |-> format(needed[k])])
                 ELSE Call("submit_checked", None, FALSE, None)
    /\ UNCHANGED <<tx, fee_payer, prev, wire, decoded, off_curve, pda, enc_words, enc_encoding, enc_data_values, enc_data, enc_result>>

\* do_submit after the check: the transaction is encoded and posted.
SubmitSend ==
    /\ op.name = "submit_checked"
    /\ op' = IF encode(tx).ok
             THEN Call("sendTransaction", None, FALSE, encode(tx).value)
             ELSE Call("submit_error", None, FALSE, encode(tx).value)
    /\ UNCHANGED <<tx, fee_payer, prev, wire, decoded, off_curve, pda, enc_words, enc_encoding, enc_data_values, enc_data, enc_result>>

NextSubmit ==
    \/ Decode
    \/ SubmitCheck
    \/ SubmitSend

SpecSubmit == InitSignersDecode /\ [][NextSubmit]_vars

\* C17: submit never issues a sendTransaction request for a transaction
\* that has a signed address with an empty signature slot: it then ends
\* with an error listing the missing signers, before any request; a
\* request is made only once needed_signatures() was found empty, and none
\* of the signature slots it carries is empty.
C17_SubmitRefusesUnsigned ==
    /\ op.name \in {"submit_checked", "sendTransaction"} =>
          /\ Missing(tx) = {}
          /\ needed_signatures(tx) = << >>
    /\ op.name = "sendTransaction" =>
          /\ op.arg[1] = Len(Signed(tx))
          /\ \A k \in 1..Len(Signed(tx)) :
                SubSeq(op.arg, 2 + ((k - 1) * 64), 1 + (k * 64)) # [i \in 1..64 |-> 0]
    /\ (op.name = "submit_error" /\ Missing(tx) # {}) =>
          {op.arg[k] : k \in 1..Len(op.arg)} = {format(a) : a \in Missing(tx)}

\* C17's case: a transaction whose signed read-write address has signed and
\* whose signed read-only address has not was refused with the list of the
\* one missing signer.
C17_Witness ==
    /\ op.name = "submit_error"
    /\ Len(tx.signed_read_write_addresses) = 1
    /\ Len(tx.signed_read_only_addresses) = 1
    /\ IsSome(tx.signed_read_write_addresses[1].signature)
    /\ tx.signed_read_only_addresses[1] = PubkeyWithSignature(Key(58), None)
    /\ op.arg = <<format(Key(58))>>

-----------------------------------------------------------------------------

\* The addresses that are in s.
Members(s) == {s[i] : i \in 1..Len(s)}

\* Two addresses that are in both before and after have the same relative
\* order in both.
OrderKept(before, after) ==
    \A a, b \in Members(before) \cap Members(after) :
        Position(before, a) < Position(before, b) => Position(after, a) < Position(after, b)

\* Every address that is in after and not in before comes after all those
\* that are in both.
EnteredAtEnd(before, after) ==
    \A a \in Members(after) \ Members(before) : \A b \in Members(before) \cap Members(after) :
        Position(after, b) < Position(after, a)

\* C18: instructions are kept in the order add_instruction was called; an
\* add_signature, add_address or add_instruction call leaves unchanged the
\* relative order of every two addresses that are in the same partition
\* before and after it, and an address entering a partition (new or
\* promoted) is appended at its end.
C18_FirstSeenOrder ==
    op.name \in {"add_signature", "add_address", "add_instruction"} =>
        /\ \A p \in 1..4 :
              /\ OrderKept(Table(prev)[p], Table(tx)[p])
              /\ EnteredAtEnd(Table(prev)[p], Table(tx)[p])
              /\ op.name # "add_instruction" =>
                    \A a \in Members(Table(tx)[p]) \ Members(Table(prev)[p]) :
                        /\ a = op.address
                        /\ Table(tx)[p][Len(Table(tx)[p])] = a
        /\ tx.instructions = IF op.name = "add_instruction" THEN Append(prev.instructions, op.arg)
                             ELSE prev.instructions

\* C18's case: a second instruction has been added after the first, and it
\* has promoted an address out of another partition to the end of
\* signed_read_write, after the two entries that stay there.
C18_Witness ==
    /\ op.name = "add_instruction"
    /\ Len(prev.instructions) = 1
    /\ Len(tx.instructions) = 2
    /\ tx.instructions[1] = prev.instructions[1]
    /\ Len(prev.signed_read_write_addresses) = 2
    /\ Len(tx.signed_read_write_addresses) = 3
    /\ \E p \in 2..4 : /\ Contains(Table(prev)[p], tx.signed_read_write_addresses[3].pubkey)
                       /\ ~Contains(Table(tx)[p], tx.signed_read_write_addresses[3].pubkey)

-----------------------------------------------------------------------------
(* Program derived addresses (src/src/main.rs).  SHA-256 is modelled as an *)
(* injective function of its input, and the curve-membership test as an    *)
(* arbitrary predicate: a hash is a curve point unless it is in off_curve. *)
(* Option<u8> is None or a one-byte sequence.                              *)

\* b"ProgramDerivedAddress"
PDA_MARKER == <<80, 114, 111, 103, 114, 97, 109, 68, 101, 114, 105, 118, 101, 100, 65, 100, 100, 114, 101, 115, 115>>

\* Sha256 of the bytes fed to the hasher.
Sha256(input) == <<"sha256", input>>

\* bytes_are_curve_point
bytes_are_curve_point(bytes) == bytes \notin off_curve

\* try_find_pda
try_find_pda(pubkey, seed, bump_seed) ==
    LET hash == Sha256(seed \o bump_seed \o pubkey \o PDA_MARKER)
    IN  IF bytes_are_curve_point(hash) THEN None ELSE hash

\* The loop of find_pda while bump_seed goes from high down to low: the
\* first bump seed, in that order, for which try_find_pda returns a PDA.
\* The range is searched in halves, the upper one first, so that the 256
\* iterations do not nest.
RECURSIVE find_pda_between(_, _, _, _)
find_pda_between(program_id, seed, high, low) ==
    IF high < low THEN None
    ELSE IF high = low
    THEN IF try_find_pda(program_id, seed, <<high>>) # None
         THEN <<try_find_pda(program_id, seed, <<high>>), high>>
         ELSE None
    ELSE LET middle == (high + low + 1) \div 2
             upper == find_pda_between(program_id, seed, high, middle)
         IN  IF upper # None THEN upper
             ELSE find_pda_between(program_id, seed, middle - 1, low)

\* A plausible slip: the loop starts one below the largest bump seed.
find_pda_skipping_255(program_id, seed) == find_pda_between(program_id, seed, U8_MAX - 1, 0)

\* find_pda
find_pda(program_id, seed) == find_pda_between(program_id, seed, U8_MAX, 0)

\* How a derivation ended: it returned a value, or the process panicked.
Returned(v) == [panicked |-> FALSE, value |-> v]

\* Option::unwrap
unwrap(o) == [panicked |-> o = None, value |-> o]

\* n as width little-endian bytes.
RECURSIVE to_le_bytes(_, _)
to_le_bytes(n, width) ==
    IF width = 0 THEN << >> ELSE <<n % 256>> \o to_le_bytes(n \div 256, width - 1)

\* The base seed of a Pda or Bump value whose data values are the u8
\* values v, in each dialect: a Vector of them in bincode with fixed-width
\* integers (u64 length), in borsh (u32 length), and bare in C.
rust_bincode_seed(v) == to_le_bytes(Len(v), 8) \o v

rust_borsh_seed(v) == to_le_bytes(Len(v), 4) \o v

c_seed(v) == v

\* DataValue::Pda(program_id, v) in write_rust_bincode_value,
\* write_rust_borsh_value and write_c_value, given the dialect's seed:
\* find_pda(..).unwrap(), then the pubkey is written.
write_value_Pda(program_id, seed) ==
    LET found == unwrap(find_pda(program_id, seed))
    IN  IF found.panicked THEN found ELSE Returned(Ok(found.value[1]))

\* DataValue::Bump(program_id, v) in the same three functions: the bump
\* seed is written, one byte.
write_value_Bump(program_id, seed) ==
    LET found == unwrap(find_pda(program_id, seed))
    IN  IF found.panicked THEN found ELSE Returned(Ok(<<found.value[2]>>))

\* do_pda from the seed on: without bump seed a failure is an error, with
\* one the result of find_pda is unwrapped.
do_pda(no_bump_seed, program_id, seed) ==
    IF no_bump_seed
    THEN IF try_find_pda(program_id, seed, None) = None
         THEN Returned(Err("Cannot find PDA, consider allowing bump seed"))
         ELSE Returned(Ok(<<try_find_pda(program_id, seed, None), None>>))
    ELSE LET found == unwrap(find_pda(program_id, seed))
         IN  IF found.panicked THEN found
             ELSE Returned(Ok(<<found.value[1], <<found.value[2]>>>>))

-----------------------------------------------------------------------------
(* Inputs of the derivations: a program, the seed's u8 values, and the set *)
(* of bump seeds (None included or not) whose hash is off the curve.       *)

PdaPrograms == {Addr(1)}

SeedValues == {<< >>, <<7>>}

\* Every bump seed.
BumpSeeds == 0..U8_MAX

\* The sets of bump seeds that may be the ones off the curve: none, one,
\* two of which one is 0, 1 or 255, or all.
OffCurveBumps ==
    {{}, BumpSeeds} \cup {{a, b} : a \in BumpSeeds, b \in {0, 1, U8_MAX}} \cup {{a} : a \in BumpSeeds}

\* The hashes off the curve when, for each seed encoding of v, the bump
\* seeds of bumps (and no bump seed at all, if without) are.
OffCurve(program_id, v, bumps, without) ==
    {Sha256(seed \o <<b>> \o program_id \o PDA_MARKER) :
         seed \in {rust_bincode_seed(v), rust_borsh_seed(v), c_seed(v)}, b \in bumps}
        \cup (IF without THEN {Sha256(c_seed(v) \o program_id \o PDA_MARKER)} ELSE {})

InitPda ==
    /\ \E program_id \in PdaPrograms, v \in SeedValues, bumps \in OffCurveBumps, without \in BOOLEAN :
          /\ off_curve = OffCurve(program_id, v, bumps, without)
          /\ op = Call("pda_args", program_id, FALSE, v)
    /\ pda = None
    /\ enc_words = None
    /\ enc_encoding = None
    /\ enc_data_values = None
    /\ enc_data = None
    /\ enc_result = None
    /\ tx = None
    /\ fee_payer = None
    /\ prev = None
    /\ wire = None
    /\ decoded = None

\* What is being derived: the program and the seed's values.
Deriving == op.name = "pda_args"

FindPda ==
    /\ Deriving
    /\ pda' = Returned(find_pda(op.address, c_seed(op.arg)))
    /\ op' = Call("find_pda", op.address, FALSE, c_seed(op.arg))
    /\ UNCHANGED <<tx, fee_payer, prev, wire, decoded, off_curve, enc_words, enc_encoding, enc_data_values, enc_data, enc_result>>

WriteRustBincodePda ==
    /\ Deriving
    /\ pda' = write_value_Pda(op.address, rust_bincode_seed(op.arg))
    /\ op' = Call("write_rust_bincode_value Pda", op.address, FALSE, rust_bincode_seed(op.arg))
    /\ UNCHANGED <<tx, fee_payer, prev, wire, decoded, off_curve, enc_words, enc_encoding, enc_data_values, enc_data, enc_result>>

WriteRustBincodeBump ==
    /\ Deriving
    /\ pda' = write_value_Bump(op.address, rust_bincode_seed(op.arg))
    /\ op' = Call("write_rust_bincode_value Bump", op.address, FALSE, rust_bincode_seed(op.arg))
    /\ UNCHANGED <<tx, fee_payer, prev, wire, decoded, off_curve, enc_words, enc_encoding, enc_data_values, enc_data, enc_result>>

WriteRustBorshPda ==
    /\ Deriving
    /\ pda' = write_value_Pda(op.address, rust_borsh_seed(op.arg))
    /\ op' = Call("write_rust_borsh_value Pda", op.address, FALSE, rust_borsh_seed(op.arg))
    /\ UNCHANGED <<tx, fee_payer, prev, wire, decoded, off_curve, enc_words, enc_encoding, enc_data_values, enc_data, enc_result>>

WriteRustBorshBump ==
    /\ Deriving
    /\ pda' = write_value_Bump(op.address, rust_borsh_seed(op.arg))
    /\ op' = Call("write_rust_borsh_value Bump", op.address, FALSE, rust_borsh_seed(op.arg))
    /\ UNCHANGED <<tx, fee_payer, prev, wire, decoded, off_curve, enc_words, enc_encoding, enc_data_values, enc_data, enc_result>>

WriteCPda ==
    /\ Deriving
    /\ pda' = write_value_Pda(op.address, c_seed(op.arg))
    /\ op' = Call("write_c_value Pda", op.address, FALSE, c_seed(op.arg))
    /\ UNCHANGED <<tx, fee_payer, prev, wire, decoded, off_curve, enc_words, enc_encoding, enc_data_values, enc_data, enc_result>>

WriteCBump ==
    /\ Deriving
    /\ pda' = write_value_Bump(op.address, c_seed(op.arg))
    /\ op' = Call("write_c_value Bump", op.address, FALSE, c_seed(op.arg))
    /\ UNCHANGED <<tx, fee_payer, prev, wire, decoded, off_curve, enc_words, enc_encoding, enc_data_values, enc_data, enc_result>>

DoPda(no_bump_seed) ==
    /\ Deriving
    /\ pda' = do_pda(no_bump_seed, op.address, c_seed(op.arg))
    /\ op' = Call("do_pda", op.address, no_bump_seed, c_seed(op.arg))
    /\ UNCHANGED <<tx, fee_payer, prev, wire, decoded, off_curve, enc_words, enc_encoding, enc_data_values, enc_data, enc_result>>

NextPda ==
    \/ FindPda
    \/ WriteRustBincodePda
    \/ WriteRustBincodeBump
    \/ WriteRustBorshPda
    \/ WriteRustBorshBump
    \/ WriteCPda
    \/ WriteCBump
    \/ \E no_bump_seed \in BOOLEAN : DoPda(no_bump_seed)

SpecPda == InitPda /\ [][NextPda]_vars

\* The bump seeds for which try_find_pda returns a PDA.
Accepted(program_id, seed) == {b \in 0..255 : try_find_pda(program_id, seed, <<b>>) # None}

\* C19: with the curve test an arbitrary predicate, find_pda returns
\* (pda, bump) where bump is the largest value of 0..255 for which
\* try_find_pda returns a PDA and pda is that PDA, try_find_pda returning
\* none for every larger bump; and it returns none only when all 256 bump
\* values are rejected.
C19_FindPdaLargestBump ==
    op.name = "find_pda" =>
        LET accepted == Accepted(op.address, op.arg)
        IN  /\ ~pda.panicked
            /\ pda.value = None <=> accepted = {}
            /\ pda.value # None =>
                  /\ pda.value[2] \in accepted
                  /\ \A b \in accepted : b <= pda.value[2]
                  /\ pda.value[1] = try_find_pda(op.address, op.arg, <<pda.value[2]>>)
                  /\ \A b \in (pda.value[2] + 1)..255 : try_find_pda(op.address, op.arg, <<b>>) = None

\* C19's case: two bump seeds are accepted, the larger one below 255, and
\* find_pda has returned the larger.
C19_Witness ==
    /\ op.name = "find_pda"
    /\ Accepted(op.address, op.arg) = {1, 200}
    /\ pda.value = <<Sha256(op.arg \o <<200>> \o op.address \o PDA_MARKER), 200>>

\* The operations that derive a bumped PDA.
BumpedDerivations ==
    {"write_rust_bincode_value Pda", "write_rust_bincode_value Bump",
     "write_rust_borsh_value Pda", "write_rust_borsh_value Bump",
     "write_c_value Pda", "write_c_value Bump", "do_pda"}

\* C20: when no bump value in 0..255 yields an off-curve hash, every
\* operation that derives a bumped PDA (a pda or bump value in any dialect,
\* the pda subcommand) surfaces an error value and does not panic.  (Stated
\* as the claim has it; the result of find_pda is unwrapped.)
C20_PdaFailureIsError ==
    (/\ op.name \in BumpedDerivations
     /\ op.name = "do_pda" => ~op.flag
     /\ Accepted(op.address, op.arg) = {}) =>
        /\ ~pda.panicked
        /\ ~pda.value.ok

-----------------------------------------------------------------------------
(* The data value language of the encode subcommand (src/src/main.rs).  A  *)
(* String is the sequence of its bytes, and a word is a String.  An        *)
(* integer of more than one byte does not fit the model checker's          *)
(* integers, so every integer is held as it lies in memory: its bytes,     *)
(* least significant first, negative ones in two's complement.  from_str   *)
(* computes them from the decimal digits.                                  *)

\* The words the reader matches against, as string literals of the source.
\* "program"
s_program == <<112, 114, 111, 103, 114, 97, 109>>

\* "bool"
s_bool == <<98, 111, 111, 108>>

\* "u8"
s_u8 == <<117, 56>>

\* "u16"
s_u16 == <<117, 49, 54>>

\* "u32"
s_u32 == <<117, 51, 50>>

\* "u64"
s_u64 == <<117, 54, 52>>

\* "i8"
s_i8 == <<105, 56>>

\* "i16"
s_i16 == <<105, 49, 54>>

\* "i32"
s_i32 == <<105, 51, 50>>

\* "i64"
s_i64 == <<105, 54, 52>>

\* "f32"
s_f32 == <<102, 51, 50>>

\* "f64"
s_f64 == <<102, 54, 52>>

\* "string"
s_string == <<115, 116, 114, 105, 110, 103>>

\* "c_string"
s_c_string == <<99, 95, 115, 116, 114, 105, 110, 103>>

\* "pubkey"
s_pubkey == <<112, 117, 98, 107, 101, 121>>

\* "sha256"
s_sha256 == <<115, 104, 97, 50, 53, 54>>

\* "pda"
s_pda == <<112, 100, 97>>

\* "bump"
s_bump == <<98, 117, 109, 112>>

\* "pda_nobump"
s_pda_nobump == <<112, 100, 97, 95, 110, 111, 98, 117, 109, 112>>

\* "vector"
s_vector == <<118, 101, 99, 116, 111, 114>>

\* "struct"
s_struct == <<115, 116, 114, 117, 99, 116>>

\* "enum"
s_enum == <<101, 110, 117, 109>>

\* "some"
s_some == <<115, 111, 109, 101>>

\* "none"
s_none == <<110, 111, 110, 101>>

\* "true"
s_true == <<116, 114, 117, 101>>

\* "false"
s_false == <<102, 97, 108, 115, 101>>

\* The string ]
s_close == <<93>>

\* The string [
s_open == <<91>>

\* The string //
s_comment == <<47, 47>>

\* The string "
s_quote == <<34>>

\* The string \
s_backslash == <<92>>

\* The string \"
s_escaped_quote == <<92, 34>>

\* The string \\
s_escaped_backslash == <<92, 92>>
\* str::starts_with
starts_with(s, pattern) == Len(s) >= Len(pattern) /\ SubSeq(s, 1, Len(pattern)) = pattern

\* str::ends_with
ends_with(s, pattern) ==
    Len(s) >= Len(pattern) /\ SubSeq(s, Len(s) - Len(pattern) + 1, Len(s)) = pattern

\* str::replace: every match of from, left to right and not overlapping,
\* becomes to.
RECURSIVE replace(_, _, _)
replace(s, from, to) ==
    IF s = << >> THEN << >>
    ELSE IF starts_with(s, from)
    THEN to \o replace(SubSeq(s, Len(from) + 1, Len(s)), from, to)
    ELSE <<Head(s)>> \o replace(Tail(s), from, to)

\* unescape_string
unescape_string(s) == replace(replace(s, s_escaped_quote, s_quote), s_escaped_backslash, s_backslash)

\* width zero bytes: the integer 0.
Zero(width) == [i \in 1..width |-> 0]

\* limbs * factor + carry, least significant byte first; one byte longer
\* than limbs, the last byte being what did not fit.
RECURSIVE mul_add(_, _, _)
mul_add(limbs, factor, carry) ==
    IF limbs = << >> THEN <<carry>>
    ELSE <<((Head(limbs) * factor) + carry) % 256>>
             \o mul_add(Tail(limbs), factor, ((Head(limbs) * factor) + carry) \div 256)

\* The number the decimal digits stand for after acc, in Len(acc) bytes;
\* None when it does not fit (checked_mul, checked_add).
RECURSIVE magnitude(_, _)
magnitude(digits, acc) ==
    IF digits = << >> THEN acc
    ELSE CHOOSE m \in
             {IF next[Len(next)] # 0 THEN None ELSE magnitude(Tail(digits), SubSeq(next, 1, Len(acc))) :
                  next \in {mul_add(acc, 10, Head(digits) - 48)}} : TRUE

\* limbs + carry with every byte inverted: wrapping_neg when carry is 1.
RECURSIVE negate(_, _)
negate(limbs, carry) ==
    IF limbs = << >> THEN << >>
    ELSE <<((255 - Head(limbs)) + carry) % 256>>
             \o negate(Tail(limbs), ((255 - Head(limbs)) + carry) \div 256)

\* The word without its sign: a + always, a - for a signed type, and only
\* when something follows it.
Unsigned_digits(word, signed) ==
    IF Len(word) > 1 /\ (word[1] = 43 \/ (signed /\ word[1] = 45)) THEN Tail(word) ELSE word

\* from_str of u8 .. u64, usize (signed false) and i8 .. i64 (signed
\* true): the integer's bytes, or None for the ParseIntError.
from_str(word, width, signed) ==
    LET digits == Unsigned_digits(word, signed)
        negative == signed /\ Len(word) > 1 /\ word[1] = 45
        m == magnitude(digits, Zero(width))
    IN  IF digits = << >> \/ \E i \in 1..Len(digits) : digits[i] \notin 48..57 THEN None
        ELSE IF m = None THEN None
        ELSE IF ~signed THEN m
        ELSE IF negative
        THEN IF m[width] < 128 \/ m = [i \in 1..width |-> IF i = width THEN 128 ELSE 0]
             THEN negate(m, 1) ELSE None
        ELSE IF m[width] < 128 THEN m ELSE None

\* bool::from_str
bool_from_str(word) ==
    IF word = s_true THEN <<TRUE>> ELSE IF word = s_false THEN <<FALSE>> ELSE None

\* 2^e for the e of the model (below 24).
RECURSIVE pow2(_)
pow2(e) == IF e = 0 THEN 1 ELSE 2 * pow2(e - 1)

\* The decimal integer n < 65536 a float word stands for, as its unsigned
\* digits give it; None when the word is not one.  (The float words of the
\* model are the decimal integers below 65536, with or without sign: no
\* fraction, no exponent, no inf or nan.)
float_integer(word) ==
    LET m == from_str(Unsigned_digits(word, TRUE), 2, FALSE)
    IN  IF m = None \/ (Len(word) > 0 /\ Unsigned_digits(word, TRUE)[1] = 43) THEN None
        ELSE <<m[1] + (256 * m[2])>>

\* The binary exponent of n > 0.
exponent(n) == CHOOSE e \in 0..15 : pow2(e) <= n /\ n < pow2(e + 1)

\* f32::from_str, to_le_bytes taken: sign, 8 bits of exponent, 23 of
\* mantissa.
f32_from_str(word) ==
    LET n == float_integer(word)
        sign_bit == IF Len(word) > 1 /\ word[1] = 45 THEN 128 ELSE 0
        e == exponent(n[1])
        biased == e + 127
        mantissa == (n[1] - pow2(e)) * pow2(23 - e)
    IN  IF n = None THEN None
        ELSE IF n[1] = 0 THEN <<0, 0, 0, sign_bit>>
        ELSE <<mantissa % 256, (mantissa \div 256) % 256,
               ((biased % 2) * 128) + (mantissa \div 65536), sign_bit + (biased \div 2)>>

\* f64::from_str, to_le_bytes taken: sign, 11 bits of exponent, 52 of
\* mantissa, of which the integers of the model fill the upper 20.
f64_from_str(word) ==
    LET n == float_integer(word)
        sign_bit == IF Len(word) > 1 /\ word[1] = 45 THEN 128 ELSE 0
        e == exponent(n[1])
        biased == e + 1023
        mantissa == (n[1] - pow2(e)) * pow2(20 - e)
    IN  IF n = None THEN None
        ELSE IF n[1] = 0 THEN <<0, 0, 0, 0, 0, 0, 0, sign_bit>>
        ELSE <<0, 0, 0, 0, mantissa % 256, (mantissa \div 256) % 256,
               ((biased % 16) * 16) + (mantissa \div 65536), sign_bit + (biased \div 16)>>

\* The value of a hexadecimal digit, -1 for any other character.
hex_value(c) ==
    IF c \in 48..57 THEN c - 48
    ELSE IF c \in 97..102 THEN c - 87
    ELSE IF c \in 65..70 THEN c - 55
    ELSE -1

\* hex::decode
hex_decode(s) ==
    IF Len(s) % 2 # 0 THEN Err("Odd number of digits")
    ELSE IF \E i \in 1..Len(s) : hex_value(s[i]) = -1 THEN Err("Invalid character")
    ELSE Ok([i \in 1..(Len(s) \div 2) |-> (16 * hex_value(s[(2 * i) - 1])) + hex_value(s[2 * i])])

\* make_sha256
make_sha256(s) ==
    LET v == hex_decode(s)
    IN  IF ~v.ok THEN v
        ELSE IF Len(v.value) = 32 THEN v ELSE Err("Invalid sha256")

\* The Base58 alphabet of bs58: "123456789ABCDEFGHJKLMNPQRSTUVWXYZabcdefghijkmnopqrstuvwxyz"
BASE58_ALPHABET ==
    <<49, 50, 51, 52, 53, 54, 55, 56, 57, 65, 66, 67, 68, 69, 70, 71, 72,
      74, 75, 76, 77, 78, 80, 81, 82, 83, 84, 85, 86, 87, 88, 89, 90, 97,
      98, 99, 100, 101, 102, 103, 104, 105, 106, 107, 109, 110, 111, 112,
      113, 114, 115, 116, 117, 118, 119, 120, 121, 122>>

\* bs58::encode(..).into_string(): the digits as characters.
into_string(digits) ==
    [i \in 1..Len(digits) |-> BASE58_ALPHABET[digits[i] + 1]]

\* The Base58 digit a character stands for, -1 for any other character.
base58_value(c) ==
    IF \E i \in 1..58 : BASE58_ALPHABET[i] = c
    THEN (CHOOSE i \in 1..58 : BASE58_ALPHABET[i] = c) - 1
    ELSE -1

\* The limbs without their most significant one when that is zero.
trim(limbs) == IF limbs[Len(limbs)] = 0 THEN SubSeq(limbs, 1, Len(limbs) - 1) ELSE limbs

\* The number the Base58 characters stand for, least significant byte
\* first, as long as it needs to be.
RECURSIVE base58_number(_)
base58_number(s) ==
    IF s = << >> THEN << >>
    ELSE trim(mul_add(base58_number(SubSeq(s, 1, Len(s) - 1)), 58, base58_value(s[Len(s)])))

\* The number of characters '1' s begins with.
leading_ones(s) ==
    CHOOSE n \in 0..Len(s) :
        /\ \A i \in 1..n : s[i] = 49
        /\ n = Len(s) \/ s[n + 1] # 49

\* bs58::decode(s).into_vec(): a zero byte for every leading '1', then
\* the number of the other characters, most significant byte first.
bs58_decode(s) ==
    IF \E i \in 1..Len(s) : base58_value(s[i]) = -1 THEN Err("provided string contained invalid character")
    ELSE LET number == base58_number(SubSeq(s, leading_ones(s) + 1, Len(s)))
         IN  Ok(Zero(leading_ones(s)) \o [i \in 1..Len(number) |-> number[Len(number) + 1 - i]])

\* Address::from_str, and Pubkey::from_str which is it
Address_from_str(s) ==
    LET v == bs58_decode(s)
    IN  IF ~v.ok THEN v
        ELSE IF Len(v.value) = 32 THEN v ELSE Err("Invalid address")

\* str::split
RECURSIVE split(_, _, _)
split(s, delimiter, piece) ==
    IF s = << >> THEN <<piece>>
    ELSE IF Head(s) = delimiter THEN <<piece>> \o split(Tail(s), delimiter, << >>)
    ELSE split(Tail(s), delimiter, Append(piece, Head(s)))

\* u8_list_to_vec: the numbers between the commas, spaces dropped.
u8_list_to_vec(bytes) ==
    LET pieces == split(replace(bytes, <<32>>, << >>), 44, << >>)
    IN  IF \E i \in 1..Len(pieces) : from_str(pieces[i], 1, FALSE) = None
        THEN Err("invalid digit found in string")
        ELSE Ok([i \in 1..Len(pieces) |-> from_str(pieces[i], 1, FALSE)[1]])

\* private_key_bytes_array_to_pubkey: Keypair::from_bytes wants 64 bytes,
\* the last 32 of which decompress to a curve point, and they are the
\* public key.
private_key_bytes_array_to_pubkey(bytes) ==
    IF starts_with(bytes, s_open) /\ ends_with(bytes, s_close)
    THEN LET v == u8_list_to_vec(SubSeq(bytes, 2, Len(bytes) - 1))
         IN  IF ~v.ok THEN v
             ELSE IF Len(v.value) # 64 THEN Err("Keypair must be 64 bytes in length")
             ELSE IF ~bytes_are_curve_point(SubSeq(v.value, 33, 64))
             THEN Err("Cannot decompress Edwards point")
             ELSE Ok(SubSeq(v.value, 33, 64))
    ELSE Err("Invalid private key byte array")

\* public_key_bytes_array_to_pubkey
public_key_bytes_array_to_pubkey(bytes) ==
    IF starts_with(bytes, s_open) /\ ends_with(bytes, s_close)
    THEN LET v == u8_list_to_vec(SubSeq(bytes, 2, Len(bytes) - 1))
         IN  IF ~v.ok THEN v
             ELSE IF Len(v.value) # 32 THEN Err("Incorrect number of bytes in public key")
             ELSE v
    ELSE Err("Invalid public key byte array")

\* make_pubkey, when no file is named s: read_to_string fails, and s is
\* tried as Base58, as a keypair's byte array and as a pubkey's.
make_pubkey(s) ==
    IF Address_from_str(s).ok THEN Address_from_str(s)
    ELSE IF private_key_bytes_array_to_pubkey(s).ok THEN private_key_bytes_array_to_pubkey(s)
    ELSE public_key_bytes_array_to_pubkey(s)

-----------------------------------------------------------------------------
(* DataValue, and the reader of data values.  A scalar of a list is a      *)
(* non-empty sequence: its bytes, or the one truth value of a bool.        *)
(* Option<T> is None or <<t>>.  A reader works on the words left and ends  *)
(* as one of: it returned Ok(value), it returned Err(message), it panicked *)
(* or it never returns; words is what it left of its argument.  Messages   *)
(* are modelled by their fixed part.                                       *)

\* DataValue::BoolList .. DataValue::F64List, tag naming the variant
DataValue_List(tag, v) == [tag |-> tag, v |-> v]

DataValue_String(s) == [tag |-> "String", string |-> s]

DataValue_CString(max_length, string) == [tag |-> "CString", max_length |-> max_length, string |-> string]

DataValue_Pubkey(p) == [tag |-> "Pubkey", pubkey |-> p]

DataValue_Sha256(a) == [tag |-> "Sha256", digest |-> a]

DataValue_Pda(program_id, v) == [tag |-> "Pda", program_id |-> program_id, v |-> v]

DataValue_Bump(program_id, v) == [tag |-> "Bump", program_id |-> program_id, v |-> v]

DataValue_PdaNoBump(program_id, v) == [tag |-> "PdaNoBump", program_id |-> program_id, v |-> v]

DataValue_Vector(v) == [tag |-> "Vector", v |-> v]

DataValue_Struct(v) == [tag |-> "Struct", v |-> v]

DataValue_Enum(index, params) == [tag |-> "Enum", index |-> index, params |-> params]

DataValue_Some(v) == [tag |-> "Some", v |-> v]

DataValue_None == [tag |-> "None"]

\* The variants that are lists of scalars.
ListTags ==
    {"BoolList", "U8List", "U16List", "U32List", "U64List", "I8List", "I16List", "I32List", "I64List",
     "F32List", "F64List"}

\* How a reader ended.
Read(value, words) == [end |-> "Ok", value |-> value, words |-> words]

ReadErr(msg, words) == [end |-> "Err", value |-> msg, words |-> words]

\* words[0] of an empty vector
ReadPanic(words) == [end |-> "panic", value |-> "index out of bounds", words |-> words]

\* A loop whose next iteration starts in the state this one started in,
\* but for one more element pushed.
ReadLoop(words) == [end |-> "loop", value |-> "never returns", words |-> words]

\* is_data_value_terminator
is_data_value_terminator(s) ==
    s \in {s_program, s_bool, s_u8, s_u16, s_u32, s_u64, s_i8, s_i16, s_i32, s_i64, s_f32, s_f64,
           s_string, s_c_string, s_pubkey, s_sha256, s_pda, s_bump, s_pda_nobump, s_vector, s_struct,
           s_enum, s_some, s_none, s_close, s_comment}

\* The list variant a word of read_data_value's match opens, None for the
\* other words.
list_tag(word) ==
    CASE word = s_bool -> "BoolList"
      [] word = s_u8 -> "U8List"
      [] word = s_u16 -> "U16List"
      [] word = s_u32 -> "U32List"
      [] word = s_u64 -> "U64List"
      [] word = s_i8 -> "I8List"
      [] word = s_i16 -> "I16List"
      [] word = s_i32 -> "I32List"
      [] word = s_i64 -> "I64List"
      [] word = s_f32 -> "F32List"
      [] word = s_f64 -> "F64List"
      [] OTHER -> "None"

\* The closure read_data_value hands to read_list for each list variant:
\* the scalar the word stands for, None when from_str fails.
scalar_from_str(tag, word) ==
    CASE tag = "BoolList" -> bool_from_str(word)
      [] tag = "U8List" -> from_str(word, 1, FALSE)
      [] tag = "U16List" -> from_str(word, 2, FALSE)
      [] tag = "U32List" -> from_str(word, 4, FALSE)
      [] tag = "U64List" -> from_str(word, 8, FALSE)
      [] tag = "I8List" -> from_str(word, 1, TRUE)
      [] tag = "I16List" -> from_str(word, 2, TRUE)
      [] tag = "I32List" -> from_str(word, 4, TRUE)
      [] tag = "I64List" -> from_str(word, 8, TRUE)
      [] tag = "F32List" -> f32_from_str(word)
      [] tag = "F64List" -> f64_from_str(word)

\* The loop of read_list.
RECURSIVE read_list_loop(_, _, _)
read_list_loop(words, tag, ret) ==
    IF words = << >> \/ is_data_value_terminator(Head(words)) THEN Read(ret, words)
    ELSE IF scalar_from_str(tag, Head(words)) = None THEN ReadErr("Invalid value", Tail(words))
    ELSE read_list_loop(Tail(words), tag, Append(ret, scalar_from_str(tag, Head(words))))

\* read_list, tag standing for the closure f
read_list(words, tag) ==
    CHOOSE list \in
        {IF ret.end = "Ok" /\ ret.value = << >> THEN ReadErr("Empty list of values after", ret.words)
         ELSE ret : ret \in {read_list_loop(Tail(words), tag, << >>)}} : TRUE

\* read_single_value
read_single_value(words) ==
    IF Tail(words) = << >> THEN ReadErr("The final parameter is incomplete", << >>)
    ELSE Read(words[2], Tail(Tail(words)))

\* The loop of read_string_value.
RECURSIVE read_string_value_loop(_, _)
read_string_value_loop(words, ret) ==
    IF words = << >> THEN ReadErr("The final string parameter is incomplete", words)
    ELSE IF ends_with(Head(words), s_quote)
    THEN Read(ret \o unescape_string(SubSeq(Head(words), 1, Len(Head(words)) - 1)), Tail(words))
    ELSE read_string_value_loop(Tail(words), ret \o unescape_string(Head(words)))

\* read_string_value
read_string_value(words) ==
    IF words = << >> THEN ReadErr("The final string parameter is incomplete", words)
    ELSE IF starts_with(Head(words), s_quote)
    THEN IF ends_with(Head(words), s_quote)
         THEN Read(unescape_string(Head(words)), Tail(words))
         ELSE read_string_value_loop(Tail(words), unescape_string(Tail(Head(words))))
    ELSE Read(Head(words), Tail(words))

\* skip_comments
RECURSIVE skip_comments(_)
skip_comments(words) ==
    IF words # << >> /\ Head(words) = s_comment
    THEN IF \E i \in 2..Len(words) : words[i] = s_comment
         THEN skip_comments(SubSeq(words, (CHOOSE i \in 2..Len(words) :
                                               /\ words[i] = s_comment
                                               /\ \A j \in 2..(i - 1) : words[j] # s_comment) + 1,
                                   Len(words)))
         ELSE ReadErr("The final comment is incomplete", << >>)
    ELSE Read(None, words)

\* The loop of pubkey_from_words.
RECURSIVE pubkey_from_words_loop(_, _)
pubkey_from_words_loop(words, array) ==
    IF words = << >> THEN ReadErr("The final pubkey value array is incomplete", words)
    ELSE IF Head(words) = s_close THEN Read(array \o Head(words), Tail(words))
    ELSE pubkey_from_words_loop(Tail(words), array \o Head(words))

\* pubkey_from_words
pubkey_from_words(words) ==
    IF words = << >> THEN ReadErr("Missing pubkey value", words)
    ELSE IF Head(words) = s_open THEN pubkey_from_words_loop(Tail(words), s_open)
    ELSE Read(Head(words), Tail(words))

\* make_pubkey(&pubkey_from_words(words)?)?
pubkey_value(words) ==
    CHOOSE pubkey \in
        {IF s.end # "Ok" THEN s
         ELSE CHOOSE made \in
                  {IF ~key.ok THEN ReadErr(key.value, s.words) ELSE Read(key.value, s.words) :
                       key \in {make_pubkey(s.value)}} : TRUE :
             s \in {pubkey_from_words(words)}} : TRUE

RECURSIVE read_data_value(_)

\* The loop of read_vector.  An iteration in which read_data_value returns
\* a value and removes no word is followed by the same iteration.
RECURSIVE read_vector_loop(_, _)
read_vector_loop(words, v) ==
    CHOOSE ret \in
        {IF skipped.end # "Ok" THEN skipped
         ELSE IF skipped.words = << >> THEN ReadErr("The final parameter is incomplete", << >>)
         ELSE IF Head(skipped.words) = s_close
         THEN IF v = << >> THEN ReadErr("Empty", Tail(skipped.words)) ELSE Read(v, Tail(skipped.words))
         ELSE CHOOSE next \in
                  {IF dv.end # "Ok" THEN dv
                   ELSE IF dv.value = None
                   THEN IF v = << >> THEN ReadErr("Empty", dv.words) ELSE Read(v, dv.words)
                   ELSE IF dv.words = skipped.words THEN ReadLoop(dv.words)
                   ELSE read_vector_loop(dv.words, Append(v, dv.value[1])) :
                       dv \in {read_data_value(skipped.words)}} : TRUE :
             skipped \in {skip_comments(words)}} : TRUE

\* read_vector (the prefix is only in its messages)
read_vector(words) ==
    IF words = << >> THEN ReadErr("The final parameter is incomplete", words)
    ELSE IF Head(words) # s_open THEN ReadErr("Expected [ after", Tail(words))
    ELSE read_vector_loop(Tail(words), << >>)

\* The "pda", "bump" and "pda_nobump" arms of read_data_value.
read_pda_value(words, tag) ==
    CHOOSE ret \in
        {IF program_id.end # "Ok" THEN program_id
         ELSE CHOOSE seeds \in
                  {IF v.end # "Ok" THEN v
                   ELSE Read(<<[tag |-> tag, program_id |-> program_id.value, v |-> v.value]>>, v.words) :
                       v \in {read_vector(program_id.words)}} : TRUE :
             program_id \in {pubkey_value(Tail(words))}} : TRUE

\* The "c_string" arm of read_data_value.
read_c_string_value(words) ==
    IF Tail(words) = << >> THEN ReadErr("The final c_string parameter is incomplete", << >>)
    ELSE CHOOSE ret \in
             {IF max_length = None THEN ReadErr("Invalid max_length in c_string value", Tail(Tail(words)))
              ELSE CHOOSE read \in
                       {IF string.end # "Ok" THEN string
                        ELSE Read(<<DataValue_CString(max_length, string.value)>>, string.words) :
                            string \in {read_string_value(Tail(Tail(words)))}} : TRUE :
                  max_length \in {from_str(words[2], 2, FALSE)}} : TRUE

\* The "enum" arm of read_data_value.
read_enum_value(words) ==
    IF Tail(words) = << >> THEN ReadErr("The final enum parameter is incomplete", << >>)
    ELSE CHOOSE ret \in
             {IF index = None THEN ReadErr("Invalid enum index", Tail(Tail(words)))
              ELSE IF Tail(Tail(words)) = << >> \/ Head(Tail(Tail(words))) # s_open
              THEN Read(<<DataValue_Enum(index, None)>>, Tail(Tail(words)))
              ELSE CHOOSE read \in
                       {IF params.end # "Ok" THEN params
                        ELSE Read(<<DataValue_Enum(index, <<params.value>>)>>, params.words) :
                            params \in {read_vector(Tail(Tail(words)))}} : TRUE :
                  index \in {from_str(words[2], 8, FALSE)}} : TRUE

\* The "vector" and "struct" arms of read_data_value.
read_collection_value(words, tag) ==
    IF Tail(words) = << >> THEN ReadErr("The final parameter is incomplete", << >>)
    ELSE CHOOSE ret \in
             {IF v.end # "Ok" THEN v
              ELSE Read(<<[tag |-> tag, v |-> v.value]>>, v.words) :
                  v \in {read_vector(Tail(words))}} : TRUE

\* read_data_value: Ok(Some(value)), Ok(None) at "program", or an error;
\* words[0] panics on no words.
read_data_value(words) ==
    IF words = << >> THEN ReadPanic(words)
    ELSE IF list_tag(Head(words)) # "None"
    THEN CHOOSE ret \in
             {IF list.end # "Ok" THEN list
              ELSE Read(<<DataValue_List(list_tag(Head(words)), list.value)>>, list.words) :
                  list \in {read_list(words, list_tag(Head(words)))}} : TRUE
    ELSE IF Head(words) = s_string
    THEN CHOOSE ret \in
             {IF string.end # "Ok" THEN string
              ELSE Read(<<DataValue_String(string.value)>>, string.words) :
                  string \in {read_string_value(Tail(words))}} : TRUE
    ELSE IF Head(words) = s_c_string THEN read_c_string_value(words)
    ELSE IF Head(words) = s_pubkey
    THEN CHOOSE ret \in
             {IF pubkey.end # "Ok" THEN pubkey
              ELSE Read(<<DataValue_Pubkey(pubkey.value)>>, pubkey.words) :
                  pubkey \in {pubkey_value(Tail(words))}} : TRUE
    ELSE IF Head(words) = s_sha256
    THEN CHOOSE ret \in
             {IF word.end # "Ok" THEN word
              ELSE CHOOSE made \in
                       {IF ~digest.ok THEN ReadErr(digest.value, word.words)
                        ELSE Read(<<DataValue_Sha256(digest.value)>>, word.words) :
                            digest \in {make_sha256(word.value)}} : TRUE :
                  word \in {read_single_value(words)}} : TRUE
    ELSE IF Head(words) = s_pda THEN read_pda_value(words, "Pda")
    ELSE IF Head(words) = s_bump THEN read_pda_value(words, "Bump")
    ELSE IF Head(words) = s_pda_nobump THEN read_pda_value(words, "PdaNoBump")
    ELSE IF Head(words) = s_vector THEN read_collection_value(words, "Vector")
    ELSE IF Head(words) = s_struct THEN read_collection_value(words, "Struct")
    ELSE IF Head(words) = s_enum THEN read_enum_value(words)
    ELSE IF Head(words) = s_some
    THEN CHOOSE ret \in
             {IF inner.end # "Ok" THEN inner
              ELSE IF inner.value = None
              THEN ReadErr("The final some parameter is incomplete", inner.words)
              ELSE Read(<<DataValue_Some(inner.value[1])>>, inner.words) :
                  inner \in {read_data_value(Tail(words))}} : TRUE
    ELSE IF Head(words) = s_none THEN Read(<<DataValue_None>>, words)
    ELSE IF Head(words) = s_program THEN Read(None, words)
    ELSE ReadErr("Invalid data", words)

\* The loop of read_data_values, into being the values pushed so far.  As
\* in read_vector, an iteration that removes no word repeats.
RECURSIVE read_data_values_loop(_, _)
read_data_values_loop(words, into) ==
    CHOOSE ret \in
        {IF skipped.end # "Ok" THEN skipped
         ELSE IF skipped.words = << >> THEN Read(into, skipped.words)
         ELSE CHOOSE next \in
                  {IF data_value.end # "Ok" THEN data_value
                   ELSE IF data_value.value = None THEN Read(into, data_value.words)
                   ELSE IF data_value.words = skipped.words THEN ReadLoop(data_value.words)
                   ELSE read_data_values_loop(data_value.words, Append(into, data_value.value[1])) :
                       data_value \in {read_data_value(skipped.words)}} : TRUE :
             skipped \in {skip_comments(words)}} : TRUE

\* read_data_values
read_data_values(words, into) == read_data_values_loop(words, into)

-----------------------------------------------------------------------------
(* The writers of data values, one for each dialect.  A writer appends to  *)
(* into and ends as one of: it returned Ok(()), it returned Err(message)   *)
(* with what it had appended by then, or it panicked.                      *)

Written(into) == [end |-> "Ok", value |-> None, into |-> into]

WriteErr(msg, into) == [end |-> "Err", value |-> msg, into |-> into]

\* Option::unwrap of None
WritePanic(into) == [end |-> "panic", value |-> "called Option::unwrap() on a None value", into |-> into]

\* An integer's bytes widened to 8: zeros for an unsigned one (as u64),
\* the sign's bytes for a signed one (as i64).
widen(x, signed) ==
    x \o [i \in 1..(8 - Len(x)) |-> IF signed /\ x[Len(x)] >= 128 THEN 255 ELSE 0]

\* Whether the u64 x is at most the largest value of width bytes.
fits(x, width) == \A i \in (width + 1)..Len(x) : x[i] = 0

\* bincode's varint of the u64 x: one byte below 251, else a marker byte
\* and the 2, 4 or 8 bytes of the value.
varint_encode(x) ==
    IF fits(x, 1) /\ x[1] < 251 THEN <<x[1]>>
    ELSE IF fits(x, 2) THEN <<251>> \o SubSeq(x, 1, 2)
    ELSE IF fits(x, 4) THEN <<252>> \o SubSeq(x, 1, 4)
    ELSE <<253>> \o x

\* bincode's zigzag of the i64 x: 2n for n >= 0, 2(-n) - 1 = 2(!n) + 1 for
\* n < 0.
zigzag_encode(x) ==
    IF x[8] >= 128
    THEN SubSeq(mul_add([i \in 1..8 |-> 255 - x[i]], 2, 1), 1, 8)
    ELSE SubSeq(mul_add(x, 2, 0), 1, 8)

\* A plausible slip: the fixed integer form in both bincode dialects.
bincode_encode_unsigned_fixint(x, varint) == x

\* bincode_encode of an unsigned integer wider than a byte (u16, u32, u64,
\* usize), with DefaultOptions and varint or fixint encoding.
bincode_encode_unsigned(x, varint) == IF varint THEN varint_encode(widen(x, FALSE)) ELSE x

\* bincode_encode of a signed integer wider than a byte.
bincode_encode_signed(x, varint) ==
    IF varint THEN varint_encode(zigzag_encode(widen(x, TRUE))) ELSE x

\* bincode_encode of one scalar of a list: a bool is 1 or 0, a u8, an i8
\* and a float are their bytes in both encodings.
bincode_encode_scalar(tag, x, varint) ==
    IF tag = "BoolList" THEN <<IF x[1] THEN 1 ELSE 0>>
    ELSE IF tag \in {"U8List", "I8List", "F32List", "F64List"} THEN x
    ELSE IF tag \in {"U16List", "U32List", "U64List"} THEN bincode_encode_unsigned(x, varint)
    ELSE bincode_encode_signed(x, varint)

\* bincode_encode of a String: its length as a u64, then its bytes.
bincode_encode_string(s, varint) == bincode_encode_unsigned(to_le_bytes(Len(s), 8), varint) \o s

\* borsh_encode of one scalar of a list: fixed width, little-endian.
borsh_encode_scalar(tag, x) == IF tag = "BoolList" THEN <<IF x[1] THEN 1 ELSE 0>> ELSE x

\* borsh_encode of a String: its length as a u32, then its bytes.
borsh_encode_string(s) == to_le_bytes(Len(s), 4) \o s

\* The scalars of a list one after the other, each as bytes(x) gives it.
RECURSIVE concat(_)
concat(pieces) == IF pieces = << >> THEN << >> ELSE Head(pieces) \o concat(Tail(pieces))

\* vector_normalize: the scalars of a lone list become lists of one; there
\* is no arm for a BoolList.
vector_normalize(v) ==
    IF Len(v) = 1
    THEN IF v[1].tag \in (ListTags \ {"BoolList"})
         THEN [i \in 1..Len(v[1].v) |-> DataValue_List(v[1].tag, <<v[1].v[i]>>)]
         ELSE v
    ELSE v

\* The CString arm of all three writers.
write_c_string(max_length, string, into) ==
    IF max_length[1] + (256 * max_length[2]) < Len(string)
    THEN WriteErr("c_string has length greater than max_length", into)
    ELSE Written(into \o string \o Zero((max_length[1] + (256 * max_length[2])) - Len(string)))
\* The 32 bytes of a derived address, which is a hash: byte i of it.
pubkey_bytes(hash) == [i \in 1..ADDRESS_BYTES |-> <<hash, i>>]

\* What the Pda and Bump arms do with the seed: find_pda(..).unwrap(),
\* then the pubkey or the bump seed is appended.
write_derived(tag, program_id, seed, into) ==
    LET derived == IF tag = "Pda" THEN write_value_Pda(program_id, seed)
                   ELSE write_value_Bump(program_id, seed)
    IN  IF derived.panicked THEN WritePanic(into)
        ELSE IF tag = "Pda" THEN Written(into \o pubkey_bytes(derived.value.value))
        ELSE Written(into \o derived.value.value)

\* What the PdaNoBump arms do with the seed.
write_derived_no_bump(program_id, seed, into) ==
    IF try_find_pda(program_id, seed, None) = None THEN WriteErr("PDA could not be derived", into)
    ELSE Written(into \o pubkey_bytes(try_find_pda(program_id, seed, None)))

\* The discriminant of the Enum arm of write_rust_bincode_value: the index
\* as u32, when it is one.
bincode_enum_index(index, varint) ==
    IF ~fits(index, 4) THEN Err("enum index is greater than max of 4294967295")
    ELSE Ok(bincode_encode_unsigned(SubSeq(index, 1, 4), varint))

RECURSIVE write_rust_bincode_value(_, _, _)

\* A for loop over data values, each written by write_rust_bincode_value.
RECURSIVE write_rust_bincode_values(_, _, _)
write_rust_bincode_values(v, varint, into) ==
    IF v = << >> THEN Written(into)
    ELSE LET first == write_rust_bincode_value(Head(v), varint, into)
         IN  IF first.end # "Ok" THEN first
             ELSE write_rust_bincode_values(Tail(v), varint, first.into)

\* The seed of the Pda, Bump and PdaNoBump arms of
\* write_rust_bincode_value: the data values as a Vector, fixed-width.
rust_bincode_seed_of(v) == write_rust_bincode_value(DataValue_Vector(v), FALSE, << >>)

\* write_rust_bincode_value
write_rust_bincode_value(data_value, varint, into) ==
    IF data_value.tag \in ListTags
    THEN Written(into \o concat([i \in 1..Len(data_value.v) |->
                                    bincode_encode_scalar(data_value.tag, data_value.v[i], varint)]))
    ELSE IF data_value.tag = "String"
    THEN Written(into \o bincode_encode_string(data_value.string, varint))
    ELSE IF data_value.tag = "CString"
    THEN write_c_string(data_value.max_length, data_value.string, into)
    ELSE IF data_value.tag = "Pubkey" THEN Written(into \o data_value.pubkey)
    ELSE IF data_value.tag = "Sha256" THEN Written(into \o data_value.digest)
    ELSE IF data_value.tag \in {"Pda", "Bump", "PdaNoBump"}
    THEN LET seed == rust_bincode_seed_of(data_value.v)
         IN  IF seed.end # "Ok" THEN [seed EXCEPT !.into = into]
             ELSE IF data_value.tag = "PdaNoBump"
             THEN write_derived_no_bump(data_value.program_id, seed.into, into)
             ELSE write_derived(data_value.tag, data_value.program_id, seed.into, into)
    ELSE IF data_value.tag = "Vector"
    THEN write_rust_bincode_values(
             vector_normalize(data_value.v), varint,
             into \o bincode_encode_unsigned(to_le_bytes(Len(vector_normalize(data_value.v)), 8), varint))
    ELSE IF data_value.tag = "Struct" THEN write_rust_bincode_values(data_value.v, varint, into)
    ELSE IF data_value.tag = "Enum"
    THEN LET index == bincode_enum_index(data_value.index, varint)
         IN  IF ~index.ok THEN WriteErr(index.value, into)
             ELSE IF data_value.params = None THEN Written(into \o index.value)
             ELSE write_rust_bincode_value(DataValue_Struct(data_value.params[1]), varint,
                                           into \o index.value)
    ELSE IF data_value.tag = "Some"
    THEN write_rust_bincode_value(DataValue_Enum(to_le_bytes(1, 8), <<<<data_value.v>>>>), varint, into)
    ELSE write_rust_bincode_value(DataValue_Enum(to_le_bytes(0, 8), None), varint, into)

\* A plausible slip: the discriminant without the test of its range.
u8_enum_index_unchecked(index) == Ok(<<index[1]>>)

\* The discriminant of the Enum arms of write_rust_borsh_value and
\* write_c_value: the index as u8, when it is one.
u8_enum_index(index) ==
    IF ~fits(index, 1) THEN Err("enum index is greater than max of 255")
    ELSE Ok(<<index[1]>>)

RECURSIVE write_rust_borsh_value(_, _)

\* A for loop over data values, each written by write_rust_borsh_value.
RECURSIVE write_rust_borsh_values(_, _)
write_rust_borsh_values(v, into) ==
    IF v = << >> THEN Written(into)
    ELSE LET first == write_rust_borsh_value(Head(v), into)
         IN  IF first.end # "Ok" THEN first
             ELSE write_rust_borsh_values(Tail(v), first.into)

\* The seed of the Pda, Bump and PdaNoBump arms of write_rust_borsh_value:
\* the data values as a Vector.
rust_borsh_seed_of(v) == write_rust_borsh_value(DataValue_Vector(v), << >>)

\* write_rust_borsh_value (a vector of the model is never longer than
\* u32::MAX)
write_rust_borsh_value(data_value, into) ==
    IF data_value.tag \in ListTags
    THEN Written(into \o concat([i \in 1..Len(data_value.v) |->
                                    borsh_encode_scalar(data_value.tag, data_value.v[i])]))
    ELSE IF data_value.tag = "String" THEN Written(into \o borsh_encode_string(data_value.string))
    ELSE IF data_value.tag = "CString"
    THEN write_c_string(data_value.max_length, data_value.string, into)
    ELSE IF data_value.tag = "Pubkey" THEN Written(into \o data_value.pubkey)
    ELSE IF data_value.tag = "Sha256" THEN Written(into \o data_value.digest)
    ELSE IF data_value.tag \in {"Pda", "Bump", "PdaNoBump"}
    THEN LET seed == rust_borsh_seed_of(data_value.v)
         IN  IF seed.end # "Ok" THEN [seed EXCEPT !.into = into]
             ELSE IF data_value.tag = "PdaNoBump"
             THEN write_derived_no_bump(data_value.program_id, seed.into, into)
             ELSE write_derived(data_value.tag, data_value.program_id, seed.into, into)
    ELSE IF data_value.tag = "Vector"
    THEN write_rust_borsh_values(vector_normalize(data_value.v),
                                 into \o to_le_bytes(Len(vector_normalize(data_value.v)), 4))
    ELSE IF data_value.tag = "Struct" THEN write_rust_borsh_values(data_value.v, into)
    ELSE IF data_value.tag = "Enum"
    THEN LET index == u8_enum_index(data_value.index)
         IN  IF ~index.ok THEN WriteErr(index.value, into)
             ELSE IF data_value.params = None THEN Written(into \o index.value)
             ELSE write_rust_borsh_value(DataValue_Struct(data_value.params[1]), into \o index.value)
    ELSE IF data_value.tag = "Some"
    THEN write_rust_borsh_value(DataValue_Enum(to_le_bytes(1, 8), <<<<data_value.v>>>>), into)
    ELSE write_rust_borsh_value(DataValue_Enum(to_le_bytes(0, 8), None), into)

\* A plausible slip: nothing is padded.
c_align_never(alignment, should_align, into) == into

\* c_align
c_align(alignment, should_align, into) ==
    IF should_align /\ Len(into) % alignment # 0
    THEN into \o Zero(alignment - (Len(into) % alignment))
    ELSE into

RECURSIVE c_alignment(_)

\* c_max_alignment
RECURSIVE c_max_alignment(_)
c_max_alignment(v) ==
    IF v = << >> THEN 1
    ELSE IF c_alignment(Head(v)) > c_max_alignment(Tail(v)) THEN c_alignment(Head(v))
    ELSE c_max_alignment(Tail(v))

\* c_alignment
c_alignment(dv) ==
    IF dv.tag \in {"U16List", "I16List"} THEN 2
    ELSE IF dv.tag \in {"U32List", "I32List", "F32List"} THEN 4
    ELSE IF dv.tag \in {"U64List", "I64List", "F64List"} THEN 8
    ELSE IF dv.tag = "Struct" THEN c_max_alignment(dv.v)
    ELSE IF dv.tag = "Enum" THEN IF dv.params = None THEN 0 ELSE c_max_alignment(dv.params[1])
    ELSE IF dv.tag = "Some" THEN c_alignment(dv.v)
    ELSE 1

\* The scalars of a list as write_c_value writes them: each aligned to its
\* width (a bool, a u8 and an i8 never need it), then its bytes.
RECURSIVE write_c_scalars(_, _, _, _)
write_c_scalars(tag, v, align, into) ==
    IF v = << >> THEN into
    ELSE write_c_scalars(tag, Tail(v), align,
                         c_align(Len(Head(v)), align, into)
                             \o (IF tag = "BoolList" THEN <<IF Head(v)[1] THEN 1 ELSE 0>> ELSE Head(v)))

RECURSIVE write_c_value(_, _, _)

\* A for loop over data values, each written by write_c_value.
RECURSIVE write_c_values(_, _, _)
write_c_values(v, align, into) ==
    IF v = << >> THEN Written(into)
    ELSE LET first == write_c_value(Head(v), align, into)
         IN  IF first.end # "Ok" THEN first
             ELSE write_c_values(Tail(v), align, first.into)

\* The seed of the Pda, Bump and PdaNoBump arms of write_c_value: the
\* data values one after the other, not aligned.
c_seed_of(v) == write_c_values(v, FALSE, << >>)

\* write_c_value
write_c_value(data_value, align, into) ==
    IF data_value.tag \in ListTags
    THEN Written(write_c_scalars(data_value.tag, data_value.v, align, into))
    ELSE IF data_value.tag = "String" THEN Written(into \o data_value.string)
    ELSE IF data_value.tag = "CString"
    THEN write_c_string(data_value.max_length, data_value.string, into)
    ELSE IF data_value.tag = "Pubkey" THEN Written(into \o data_value.pubkey)
    ELSE IF data_value.tag = "Sha256" THEN Written(into \o data_value.digest)
    ELSE IF data_value.tag \in {"Pda", "Bump", "PdaNoBump"}
    THEN LET seed == c_seed_of(data_value.v)
         IN  IF seed.end # "Ok" THEN [seed EXCEPT !.into = into]
             ELSE IF data_value.tag = "PdaNoBump"
             THEN write_derived_no_bump(data_value.program_id, seed.into, into)
             ELSE write_derived(data_value.tag, data_value.program_id, seed.into, into)
    ELSE IF data_value.tag = "Vector" THEN WriteErr("vector value cannot be used with c encoding", into)
    ELSE IF data_value.tag = "Struct"
    THEN LET fields == write_c_values(data_value.v, align,
                                      c_align(c_max_alignment(data_value.v), align, into))
         IN  IF fields.end # "Ok" THEN fields
             ELSE Written(c_align(c_max_alignment(data_value.v), align, fields.into))
    ELSE IF data_value.tag = "Enum"
    THEN LET index == u8_enum_index(data_value.index)
         IN  IF ~index.ok THEN WriteErr(index.value, into)
             ELSE IF data_value.params = None THEN Written(into \o index.value)
             ELSE write_c_value(DataValue_Struct(data_value.params[1]), align, into \o index.value)
    ELSE IF data_value.tag = "Some"
    THEN write_c_value(DataValue_Enum(to_le_bytes(1, 8), <<<<data_value.v>>>>), align, into)
    ELSE write_c_value(DataValue_Enum(to_le_bytes(0, 8), None), align, into)

\* Encoding
Encodings == {"RustBincodeVarInt", "RustBincodeFixedInt", "RustBorsh", "C"}

\* write_data_value
write_data_value(data_value, encoding, into) ==
    CASE encoding = "RustBincodeVarInt" -> write_rust_bincode_value(data_value, TRUE, into)
      [] encoding = "RustBincodeFixedInt" -> write_rust_bincode_value(data_value, FALSE, into)
      [] encoding = "RustBorsh" -> write_rust_borsh_value(data_value, into)
      [] encoding = "C" -> write_c_value(data_value, TRUE, into)

-----------------------------------------------------------------------------
(* The data of one instruction in do_encode: the words are read by         *)
(* read_data_values, then each data value is written by write_data_value   *)
(* to the instruction's data.  The values handed to the writers are those  *)
(* the reader yields and, the writers being functions of any DataValue,    *)
(* some that no words yield (a DataValue::None).                           *)

\* The program id of the pda values: 31 zero bytes and a 7.
ProgramId == [i \in 1..ADDRESS_BYTES |-> IF i = ADDRESS_BYTES THEN 7 ELSE 0]

\* The program id in Base58.
ProgramWord == into_string(bs58_encode(ProgramId))

\* A digest of 32 zero bytes, in hexadecimal.
DigestWord == [i \in 1..64 |-> 48]

\* The data of the SOL transfer: enum 2 [ u64 12131001000 ]
TransferWords == <<s_enum, <<50>>, s_open, s_u64, <<49, 50, 49, 51, 49, 48, 48, 49, 48, 48, 48>>, s_close>>

\* The data of the instructions encoded, each as its words.
EncodeWords ==
    {TransferWords} \cup
    {
      \* enum 3 [ u64 10000000 ]
      <<s_enum, <<51>>, s_open, s_u64, <<49, 48, 48, 48, 48, 48, 48, 48>>, s_close>>,
      \* some u32 7
      <<s_some, s_u32, <<55>>>>,
      \* struct [ u8 1 u32 2 ]
      <<s_struct, s_open, s_u8, <<49>>, s_u32, <<50>>, s_close>>,
      \* struct [ u8 1 u8 2 ]
      <<s_struct, s_open, s_u8, <<49>>, s_u8, <<50>>, s_close>>,
      \* u8 1 struct [ u8 2 enum 1 [ u64 3 ] ] u8 9
      <<s_u8, <<49>>, s_struct, s_open, s_u8, <<50>>, s_enum, <<49>>, s_open, s_u64, <<51>>,
        s_close, s_close, s_u8, <<57>>>>,
      \* u8 1 u16 2 u8 3 u64 4
      <<s_u8, <<49>>, s_u16, <<50>>, s_u8, <<51>>, s_u64, <<52>>>>,
      \* i8 -1 i16 -2 i32 -3 i64 -4
      <<s_i8, <<45, 49>>, s_i16, <<45, 50>>, s_i32, <<45, 51>>, s_i64, <<45, 52>>>>,
      \* bool true f32 1 u8 1 f64 2
      <<s_bool, s_true, s_f32, <<49>>, s_u8, <<49>>, s_f64, <<50>>>>,
      \* u8 1 u32 70000 u8 2 i32 5
      <<s_u8, <<49>>, s_u32, <<55, 48, 48, 48, 48>>, s_u8, <<50>>, s_i32, <<53>>>>,
      \* u8 1 2 3 struct [ u16 1 2 ]
      <<s_u8, <<49>>, <<50>>, <<51>>, s_struct, s_open, s_u16, <<49>>, <<50>>, s_close>>,
      \* vector [ bool true false ]
      <<s_vector, s_open, s_bool, s_true, s_false, s_close>>,
      \* vector [ u8 1 2 ]
      <<s_vector, s_open, s_u8, <<49>>, <<50>>, s_close>>,
      \* vector [ u16 1 2 ]
      <<s_vector, s_open, s_u16, <<49>>, <<50>>, s_close>>,
      \* vector [ u32 1 2 3 ]
      <<s_vector, s_open, s_u32, <<49>>, <<50>>, <<51>>, s_close>>,
      \* vector [ u64 1 2 ]
      <<s_vector, s_open, s_u64, <<49>>, <<50>>, s_close>>,
      \* vector [ i8 1 2 ]
      <<s_vector, s_open, s_i8, <<49>>, <<50>>, s_close>>,
      \* vector [ i16 1 2 ]
      <<s_vector, s_open, s_i16, <<49>>, <<50>>, s_close>>,
      \* vector [ i32 1 2 ]
      <<s_vector, s_open, s_i32, <<49>>, <<50>>, s_close>>,
      \* vector [ i64 1 2 ]
      <<s_vector, s_open, s_i64, <<49>>, <<50>>, s_close>>,
      \* vector [ f32 1 2 ]
      <<s_vector, s_open, s_f32, <<49>>, <<50>>, s_close>>,
      \* vector [ f64 1 2 ]
      <<s_vector, s_open, s_f64, <<49>>, <<50>>, s_close>>,
      \* vector [ u8 1 u16 2 ]
      <<s_vector, s_open, s_u8, <<49>>, s_u16, <<50>>, s_close>>,
      \* vector [ u8 1 2 u8 3 ]
      <<s_vector, s_open, s_u8, <<49>>, <<50>>, s_u8, <<51>>, s_close>>,
      \* vector [ struct [ u8 1 2 ] ]
      <<s_vector, s_open, s_struct, s_open, s_u8, <<49>>, <<50>>, s_close, s_close>>,
      \* string abc
      <<s_string, <<97, 98, 99>>>>,
      \* u8 1 string abc
      <<s_u8, <<49>>, s_string, <<97, 98, 99>>>>,
      \* u8 1 vector [ u8 1 ]
      <<s_u8, <<49>>, s_vector, s_open, s_u8, <<49>>, s_close>>,
      \* struct [ u8 1 string ab ]
      <<s_struct, s_open, s_u8, <<49>>, s_string, <<97, 98>>, s_close>>,
      \* struct [ u8 1 vector [ u8 2 ] ]
      <<s_struct, s_open, s_u8, <<49>>, s_vector, s_open, s_u8, <<50>>, s_close, s_close>>,
      \* enum 1 [ string a ]
      <<s_enum, <<49>>, s_open, s_string, <<97>>, s_close>>,
      \* enum 255
      <<s_enum, <<50, 53, 53>>>>,
      \* enum 256
      <<s_enum, <<50, 53, 54>>>>,
      \* enum 256 [ u8 1 ]
      <<s_enum, <<50, 53, 54>>, s_open, s_u8, <<49>>, s_close>>,
      \* enum 300000 [ u16 1 ]
      <<s_enum, <<51, 48, 48, 48, 48, 48>>, s_open, s_u16, <<49>>, s_close>>,
      \* enum 4294967295
      <<s_enum, <<52, 50, 57, 52, 57, 54, 55, 50, 57, 53>>>>,
      \* enum 4294967296
      <<s_enum, <<52, 50, 57, 52, 57, 54, 55, 50, 57, 54>>>>,
      \* enum 4294967296 [ u8 1 ]
      <<s_enum, <<52, 50, 57, 52, 57, 54, 55, 50, 57, 54>>, s_open, s_u8, <<49>>, s_close>>,
      \* some enum 7 [ u16 1 ]
      <<s_some, s_enum, <<55>>, s_open, s_u16, <<49>>, s_close>>,
      \* c_string 4 ab
      <<s_c_string, <<52>>, <<97, 98>>>>,
      \* c_string 1 ab
      <<s_c_string, <<49>>, <<97, 98>>>>,
      \* pubkey P
      <<s_pubkey, ProgramWord>>,
      \* sha256 <digest>
      <<s_sha256, DigestWord>>,
      \* pda <program id> [ u8 7 ]
      <<s_pda, ProgramWord, s_open, s_u8, <<55>>, s_close>>,
      \* bump <program id> [ u8 7 ]
      <<s_bump, ProgramWord, s_open, s_u8, <<55>>, s_close>>,
      \* pda_nobump <program id> [ u8 7 ]
      <<s_pda_nobump, ProgramWord, s_open, s_u8, <<55>>, s_close>>,
      \* pda <program id> [ u16 1 c_string 2 a pubkey <program id> ]
      <<s_pda, ProgramWord, s_open, s_u16, <<49>>, s_c_string, <<50>>, <<97>>, s_pubkey,
        ProgramWord, s_close>>,
      \* bump <program id> [ u8 1 2 ]
      <<s_bump, ProgramWord, s_open, s_u8, <<49>>, <<50>>, s_close>>,
      \* pda <program id> [ u8 1 u8 2 ]
      <<s_pda, ProgramWord, s_open, s_u8, <<49>>, s_u8, <<50>>, s_close>>
    }

\* Values no words yield.
DataValueInputs ==
    {DataValue_None,
     DataValue_Some(DataValue_None),
     DataValue_Struct(<<DataValue_List("U8List", <<<<1>>>>), DataValue_None, DataValue_List("U32List", <<<<2, 0, 0, 0>>>>)>>)}

\* The Pda, Bump and PdaNoBump values among the data values v, at any
\* depth but not in the seeds of another.
RECURSIVE derived_values(_)
derived_values(v) ==
    IF v = << >> THEN {}
    ELSE derived_values(Tail(v)) \cup
         (IF Head(v).tag \in {"Pda", "Bump", "PdaNoBump"} THEN {Head(v)}
          ELSE IF Head(v).tag \in {"Vector", "Struct"} THEN derived_values(Head(v).v)
          ELSE IF Head(v).tag = "Enum" /\ Head(v).params # None THEN derived_values(Head(v).params[1])
          ELSE IF Head(v).tag = "Some" THEN derived_values(<<Head(v).v>>)
          ELSE {})

\* The seeds the three writers make of the data values v.
SeedsOf(v) ==
    {seed.into : seed \in {s \in {rust_bincode_seed_of(v), rust_borsh_seed_of(v), c_seed_of(v)} : s.end = "Ok"}}

\* A curve test under which the bump seed 254, and no bump seed at all,
\* derive a PDA from every seed of every value of the words, and the bump
\* seed 255 does not.
OffCurveOf(ws) ==
    LET values == read_data_values(ws, << >>)
    IN  IF values.end # "Ok" THEN {}
        ELSE UNION {{Sha256(seed \o bump \o dv.program_id \o PDA_MARKER) :
                         seed \in SeedsOf(dv.v), bump \in {<<254>>, << >>}} :
                     dv \in derived_values(values.value)}

\* do_encode with its encoding read.
InitEncodeWords ==
    /\ enc_encoding \in Encodings
    /\ op = Call("do_encode", None, FALSE, None)
    /\ off_curve = {}
    /\ enc_words = None
    /\ enc_data_values = << >>
    /\ enc_data = << >>
    /\ enc_result = None
    /\ tx = None
    /\ fee_payer = None
    /\ prev = None
    /\ wire = None
    /\ decoded = None
    /\ pda = None

\* do_encode at its loop over data_values, for the values no words yield.
InitEncodeValues ==
    /\ \E dv \in DataValueInputs, e \in Encodings :
          /\ enc_data_values = <<dv>>
          /\ enc_encoding = e
          /\ enc_result = Read(<<dv>>, << >>)
    /\ op = Call("read_data_values", None, FALSE, << >>)
    /\ enc_words = << >>
    /\ enc_data = << >>
    /\ off_curve = {}
    /\ tx = None
    /\ fee_payer = None
    /\ prev = None
    /\ wire = None
    /\ decoded = None
    /\ pda = None

InitEncode == InitEncodeWords \/ InitEncodeValues

\* do_encode from the program word through read_accounts: the words left
\* are those of the data values.
ReadAccounts ==
    /\ op.name = "do_encode"
    /\ \E ws \in EncodeWords :
          /\ enc_words' = ws
          /\ off_curve' = OffCurveOf(ws)
          /\ op' = Call("words", None, FALSE, ws)
    /\ prev' = None
    /\ UNCHANGED <<tx, fee_payer, wire, decoded, pda, enc_encoding, enc_data_values, enc_data, enc_result>>

\* read_data_values(&mut words, &mut data_values)
ReadDataValues ==
    /\ op.name = "words"
    /\ enc_result' = read_data_values(enc_words, << >>)
    /\ enc_words' = enc_result'.words
    /\ enc_data_values' = IF enc_result'.end = "Ok" THEN enc_result'.value ELSE << >>
    /\ op' = Call("read_data_values", None, FALSE, enc_words)
    /\ prev' = enc_words
    /\ UNCHANGED <<tx, fee_payer, wire, decoded, off_curve, pda, enc_encoding, enc_data>>

\* One turn of the loop `for dv in data_values`: write_data_value(dv,
\* &encoding, &mut data)?
WriteDataValue ==
    /\ op.name \in {"read_data_values", "write_data_value"}
    /\ enc_result.end = "Ok"
    /\ enc_data_values # << >>
    /\ enc_result' = write_data_value(Head(enc_data_values), enc_encoding, enc_data)
    /\ enc_data' = enc_result'.into
    /\ enc_data_values' = Tail(enc_data_values)
    /\ op' = Call("write_data_value", None, FALSE, Head(enc_data_values))
    /\ prev' = enc_data
    /\ UNCHANGED <<tx, fee_payer, wire, decoded, off_curve, pda, enc_words, enc_encoding>>

NextEncode ==
    \/ ReadAccounts
    \/ ReadDataValues
    \/ WriteDataValue

SpecEncode == InitEncode /\ [][NextEncode]_vars

\* C21: in the C dialect a string value and a vector value are rejected:
\* write_c_value returns "string value cannot be used with c encoding" for a
\* String and "vector value cannot be used with c encoding" for a Vector and
\* appends no bytes for them, and a struct or enum that holds one as a field
\* fails with that error too.
C21_CRejectsStringAndVector ==
    (op.name = "write_data_value" /\ enc_encoding = "C") =>
        /\ op.arg.tag = "String" =>
               enc_result = WriteErr("string value cannot be used with c encoding", prev)
        /\ op.arg.tag = "Vector" =>
               enc_result = WriteErr("vector value cannot be used with c encoding", prev)
        /\ (op.arg.tag = "Struct" /\ \E i \in DOMAIN op.arg.v : op.arg.v[i].tag \in {"String", "Vector"}) =>
               /\ enc_result.end = "Err"
               /\ enc_result.value \in {"string value cannot be used with c encoding",
                                        "vector value cannot be used with c encoding"}
        /\ (op.arg.tag = "Enum" /\ op.arg.params # None
              /\ \E i \in DOMAIN op.arg.params[1] : op.arg.params[1][i].tag \in {"String", "Vector"}) =>
               /\ enc_result.end = "Err"
               /\ enc_result.value \in {"string value cannot be used with c encoding",
                                        "vector value cannot be used with c encoding"}

\* C22: encoding Enum{index, params} fails with an error, nothing appended,
\* when index > 255 under borsh and C and when index > u32::MAX under the two
\* bincode dialects; otherwise the discriminant is written (one byte under
\* borsh and C; the index as a u32 under bincode: four bytes in the fixed
\* integer dialect, the variable-length form of the u32 in the varint
\* dialect), followed by the params encoded as a Struct; Some(v) encodes as
\* Enum{1, [v]} and None as Enum{0, no params}.
C22_EnumDiscriminant ==
    (op.name = "write_data_value" /\ op.arg.tag \in {"Enum", "Some", "None"}) =>
        LET index == IF op.arg.tag = "Enum" THEN op.arg.index
                     ELSE IF op.arg.tag = "Some" THEN <<1, 0, 0, 0, 0, 0, 0, 0>>
                     ELSE <<0, 0, 0, 0, 0, 0, 0, 0>>
            params == IF op.arg.tag = "Enum" THEN op.arg.params
                      ELSE IF op.arg.tag = "Some" THEN <<<<op.arg.v>>>>
                      ELSE None
            limit == IF enc_encoding \in {"RustBorsh", "C"} THEN 1 ELSE 4
            discriminant ==
                IF enc_encoding \in {"RustBorsh", "C"} THEN <<index[1]>>
                ELSE IF enc_encoding = "RustBincodeFixedInt" THEN SubSeq(index, 1, 4)
                ELSE IF index[1] < 251 /\ index[2] = 0 /\ index[3] = 0 /\ index[4] = 0 THEN <<index[1]>>
                ELSE IF index[3] = 0 /\ index[4] = 0 THEN <<251, index[1], index[2]>>
                ELSE <<252>> \o SubSeq(index, 1, 4)
        IN  IF \E i \in (limit + 1)..8 : index[i] # 0
            THEN enc_result.end = "Err" /\ enc_data = prev
            ELSE IF params = None THEN enc_result = Written(prev \o discriminant)
            ELSE enc_result = write_data_value(DataValue_Struct(params[1]), enc_encoding,
                                               prev \o discriminant)

\* `enum 256 [ u8 1 ]` was written in the varint dialect: the u32 256 as fb
\* 00 01, then the field.
C22_Witness ==
    /\ op.name = "write_data_value"
    /\ enc_encoding = "RustBincodeVarInt"
    /\ op.arg.tag = "Enum"
    /\ op.arg.index = <<0, 1, 0, 0, 0, 0, 0, 0>>
    /\ op.arg.params # None
    /\ enc_result.end = "Ok"
    /\ enc_data = <<251, 0, 1, 1>>

\* C23 as the specification states it: in the default varint dialect the
\* data `enum 2 [ u64 12131001000 ]` encodes to the 12 bytes 02 00 00 00
\* a8 84 bb d3 02 00 00 00.
C23_TransferIsTwelveBytes ==
    (/\ op.name = "write_data_value"
     /\ enc_encoding = "RustBincodeVarInt"
     /\ op.arg.tag = "Enum"
     /\ op.arg.index = from_str(TransferWords[2], 8, FALSE)
     /\ op.arg.params # None
     /\ Len(op.arg.params[1]) = 1
     /\ op.arg.params[1][1].tag = "U64List"
     /\ op.arg.params[1][1].v = <<from_str(TransferWords[5], 8, FALSE)>>
     /\ prev = << >>) =>
        enc_data = <<2, 0, 0, 0, 168, 132, 187, 211, 2, 0, 0, 0>>

\* C23, amended: in the default varint dialect the data `enum 2 [ u64
\* 12131001000 ]` encodes to the 10 bytes 02 fd a8 62 10 d3 02 00 00 00 (a
\* one-byte discriminant, the marker fd and the 8-byte little-endian u64),
\* and in the fixed integer dialect to the 12 bytes 02 00 00 00 a8 62 10 d3
\* 02 00 00 00 (a 4-byte discriminant and the 8-byte little-endian u64).
C23_TransferBytes ==
    (/\ op.name = "write_data_value"
     /\ op.arg.tag = "Enum"
     /\ op.arg.index = from_str(TransferWords[2], 8, FALSE)
     /\ op.arg.params # None
     /\ Len(op.arg.params[1]) = 1
     /\ op.arg.params[1][1].tag = "U64List"
     /\ op.arg.params[1][1].v = <<from_str(TransferWords[5], 8, FALSE)>>
     /\ prev = << >>) =>
        /\ enc_encoding = "RustBincodeVarInt" =>
               /\ enc_result.end = "Ok"
               /\ enc_data = <<2, 253, 168, 98, 16, 211, 2, 0, 0, 0>>
        /\ enc_encoding = "RustBincodeFixedInt" =>
               /\ enc_result.end = "Ok"
               /\ enc_data = <<2, 0, 0, 0, 168, 98, 16, 211, 2, 0, 0, 0>>

\* The transfer data was written in the varint dialect.
C23_Witness ==
    /\ op.name = "write_data_value"
    /\ enc_encoding = "RustBincodeVarInt"
    /\ op.arg.tag = "Enum"
    /\ op.arg.index = <<2, 0, 0, 0, 0, 0, 0, 0>>
    /\ op.arg.params # None
    /\ op.arg.params[1][1].tag = "U64List"
    /\ op.arg.params[1][1].v = <<<<168, 98, 16, 211, 2, 0, 0, 0>>>>
    /\ prev = << >>
    /\ Len(enc_data) = 10

\* C24: in every dialect the seed of a pda, bump or pda_nobump value is the
\* raw concatenation of its seed values (fixed-width integers, pubkeys and
\* c_strings, with no length prefix and no padding), so that the value
\* written is the one derived from that concatenation, the same in every
\* dialect.
C24_SeedsAreRawConcatenation ==
    (/\ op.name = "write_data_value"
     /\ op.arg.tag \in {"Pda", "Bump", "PdaNoBump"}
     /\ \A i \in DOMAIN op.arg.v :
            op.arg.v[i].tag \in (ListTags \ {"BoolList"}) \cup {"Pubkey", "CString"}) =>
        LET raw(dv) == IF dv.tag = "Pubkey" THEN dv.pubkey
                       ELSE IF dv.tag = "CString"
                       THEN write_c_string(dv.max_length, dv.string, << >>).into
                       ELSE concat(dv.v)
            seed == concat([i \in DOMAIN op.arg.v |-> raw(op.arg.v[i])])
        IN  enc_result = IF op.arg.tag = "PdaNoBump"
                         THEN write_derived_no_bump(op.arg.program_id, seed, prev)
                         ELSE write_derived(op.arg.tag, op.arg.program_id, seed, prev)

\* C25: in the C dialect with alignment, the scalars of a u16/i16,
\* u32/i32/f32 or u64/i64/f64 list are written at an offset that is a
\* multiple of 2, 4 or 8, after zero bytes, and those of a bool/u8/i8 list
\* with no padding; a struct is preceded and followed by zero bytes up to the
\* maximum alignment of its fields, so that the buffer's length after it is
\* a multiple of that alignment, and its scalar fields lie at their aligned
\* offsets with zero bytes between them; struct [ u8 1 u32 2 ] gives 01 00 00
\* 00 02 00 00 00 and struct [ u8 1 u8 2 ] gives 01 02.
C25_CAlignment ==
    (op.name = "write_data_value" /\ enc_encoding = "C") =>
        LET pad(offset, alignment) == (alignment - (offset % alignment)) % alignment
            width(dv) == IF dv.tag \in {"U16List", "I16List"} THEN 2
                         ELSE IF dv.tag \in {"U32List", "I32List", "F32List"} THEN 4
                         ELSE IF dv.tag \in {"U64List", "I64List", "F64List"} THEN 8
                         ELSE 1
            bytes(dv) == IF dv.tag = "BoolList"
                         THEN [i \in DOMAIN dv.v |-> IF dv.v[i][1] THEN 1 ELSE 0]
                         ELSE concat(dv.v)
        IN  /\ op.arg.tag \in ListTags =>
                   /\ enc_result.end = "Ok"
                   /\ enc_data = prev \o Zero(pad(Len(prev), width(op.arg))) \o bytes(op.arg)
            /\ (op.arg.tag = "Struct" /\ \A i \in DOMAIN op.arg.v : op.arg.v[i].tag \in ListTags) =>
                   LET fields == op.arg.v
                       n == Len(fields)
                       most == CHOOSE w \in {1, 2, 4, 8} :
                                   /\ \A i \in 1..n : width(fields[i]) <= w
                                   /\ w = 1 \/ \E i \in 1..n : width(fields[i]) = w
                       end[i \in 0..n] ==
                           IF i = 0 THEN Len(prev) + pad(Len(prev), most)
                           ELSE end[i - 1] + pad(end[i - 1], width(fields[i])) + Len(bytes(fields[i]))
                       start(i) == end[i - 1] + pad(end[i - 1], width(fields[i]))
                   IN  /\ enc_result.end = "Ok"
                       /\ Len(enc_data) = end[n] + pad(end[n], most)
                       /\ Len(enc_data) % most = 0
                       /\ SubSeq(enc_data, 1, Len(prev)) = prev
                       /\ \A i \in 1..n : SubSeq(enc_data, start(i) + 1, end[i]) = bytes(fields[i])
                       /\ \A k \in (Len(prev) + 1)..Len(enc_data) :
                              (\A i \in 1..n : k <= start(i) \/ k > end[i]) => enc_data[k] = 0
            /\ (op.arg.tag = "Struct" /\ enc_result.end = "Ok") =>
                   Len(enc_data) % c_max_alignment(op.arg.v) = 0
            /\ (/\ op.arg.tag = "Struct"
                /\ Len(op.arg.v) = 2
                /\ op.arg.v[1].tag = "U8List"
                /\ op.arg.v[1].v = <<from_str(<<49>>, 1, FALSE)>>
                /\ op.arg.v[2].tag = "U32List"
                /\ op.arg.v[2].v = <<from_str(<<50>>, 4, FALSE)>>
                /\ prev = << >>) =>
                   enc_data = <<1, 0, 0, 0, 2, 0, 0, 0>>
            /\ (/\ op.arg.tag = "Struct"
                /\ Len(op.arg.v) = 2
                /\ op.arg.v[1].tag = "U8List"
                /\ op.arg.v[1].v = <<from_str(<<49>>, 1, FALSE)>>
                /\ op.arg.v[2].tag = "U8List"
                /\ op.arg.v[2].v = <<from_str(<<50>>, 1, FALSE)>>
                /\ prev = << >>) =>
                   enc_data = <<1, 2>>

\* `u8 1 2 3 struct [ u16 1 2 ]` was written in the C dialect: a zero byte
\* before the struct.
C25_Witness ==
    /\ op.name = "write_data_value"
    /\ enc_encoding = "C"
    /\ op.arg.tag = "Struct"
    /\ prev = <<1, 2, 3>>
    /\ enc_data = <<1, 2, 3, 0, 1, 0, 2, 0>>

\* C26: under bincode and borsh a vector whose only child is one scalar list
\* of N values, whatever its tag (bool, u8, u16, u32, u64, i8, i16, i32, i64,
\* f32, f64), is encoded as an N-element vector: the length prefix N, then
\* the N scalars; a vector of two or more children has its number of
\* children as length prefix; and a struct of one scalar list has no prefix.
C26_VectorNormalization ==
    (op.name = "write_data_value" /\ enc_encoding # "C" /\ op.arg.tag \in {"Vector", "Struct"}) =>
        LET v == op.arg.v
            prefix(n) == IF enc_encoding = "RustBorsh" THEN <<n, 0, 0, 0>>
                         ELSE IF enc_encoding = "RustBincodeFixedInt" THEN <<n, 0, 0, 0, 0, 0, 0, 0>>
                         ELSE <<n>>
            bytes(dv) == IF dv.tag = "BoolList"
                         THEN [i \in DOMAIN dv.v |-> IF dv.v[i][1] THEN 1 ELSE 0]
                         ELSE concat(dv.v)
        IN  /\ (op.arg.tag = "Vector" /\ Len(v) = 1 /\ v[1].tag \in ListTags) =>
                   /\ enc_result.end = "Ok"
                   /\ SubSeq(enc_data, 1, Len(prev) + Len(prefix(0))) = prev \o prefix(Len(v[1].v))
                   /\ enc_encoding # "RustBincodeVarInt" =>
                          enc_data = prev \o prefix(Len(v[1].v)) \o bytes(v[1])
            /\ (op.arg.tag = "Vector" /\ Len(v) >= 2 /\ enc_result.end = "Ok") =>
                   SubSeq(enc_data, 1, Len(prev) + Len(prefix(0))) = prev \o prefix(Len(v))
            /\ (op.arg.tag = "Struct" /\ Len(v) = 1 /\ v[1].tag \in ListTags
                  /\ enc_encoding # "RustBincodeVarInt") =>
                   enc_data = prev \o bytes(v[1])

-----------------------------------------------------------------------------
(* The reader on its own: read_string_value, read_data_value and            *)
(* read_data_values applied to lists of words.                              *)

\* The most words of a systematically built list of words.
MaxWords == 3

\* The words the lists are built of: some none u8 1 vector [ ] string "a b" "c"
ParseTokens ==
    {s_some,
     s_none,
     s_u8,
     <<49>>,
     s_vector,
     s_open,
     s_close,
     s_string,
     <<34, 97>>,
     <<98, 34>>,
     <<34, 99, 34>>}

\* Lists of words with escapes, cut off constructs and nested values.
ParseExtraWords ==
    {
      \* "a\"b"
      <<<<34, 97, 92, 34, 98, 34>>>>,
      \* "a\\b"
      <<<<34, 97, 92, 92, 98, 34>>>>,
      \* "a b c"
      <<<<34, 97>>, <<98>>, <<99, 34>>>>,
      \* "a b
      <<<<34, 97>>, <<98>>>>,
      \* "
      <<<<34>>>>,
      \* vector [ some ]
      <<s_vector, s_open, s_some, s_close>>,
      \* vector [ none ]
      <<s_vector, s_open, s_none, s_close>>,
      \* vector [ u8 1 ]
      <<s_vector, s_open, s_u8, <<49>>, s_close>>,
      \* vector [ u8 1 some
      <<s_vector, s_open, s_u8, <<49>>, s_some>>,
      \* some u8 1 u8 2
      <<s_some, s_u8, <<49>>, s_u8, <<50>>>>,
      \* some some u8 1
      <<s_some, s_some, s_u8, <<49>>>>,
      \* u8 1 // some // u8 2
      <<s_u8, <<49>>, s_comment, s_some, s_comment, s_u8, <<50>>>>,
      \* // some
      <<s_comment, s_some>>,
      \* enum
      <<s_enum>>,
      \* enum 1
      <<s_enum, <<49>>>>,
      \* enum 1 [
      <<s_enum, <<49>>, s_open>>,
      \* c_string
      <<s_c_string>>,
      \* c_string 4
      <<s_c_string, <<52>>>>,
      \* pubkey
      <<s_pubkey>>,
      \* pubkey [
      <<s_pubkey, s_open>>,
      \* sha256
      <<s_sha256>>,
      \* pda
      <<s_pda>>,
      \* pda P
      <<s_pda, ProgramWord>>,
      \* pda <program id> [
      <<s_pda, ProgramWord, s_open>>,
      \* struct [ u8 1
      <<s_struct, s_open, s_u8, <<49>>>>,
      \* some enum 1 [ u8 1 ]
      <<s_some, s_enum, <<49>>, s_open, s_u8, <<49>>, s_close>>,
      \* u8 1 none u8 2
      <<s_u8, <<49>>, s_none, s_u8, <<50>>>>,
      \* string "a b" u8 1
      <<s_string, <<34, 97>>, <<98, 34>>, s_u8, <<49>>>>
    }

\* Every list of at most MaxWords of the tokens, and the further lists.
ParseWords == (UNION {[1..n -> ParseTokens] : n \in 0..MaxWords}) \cup ParseExtraWords

\* A list of words, before the reader is applied to it.
InitParse ==
    /\ enc_words \in ParseWords
    /\ op = Call("words", None, FALSE, enc_words)
    /\ enc_encoding = None
    /\ enc_data_values = << >>
    /\ enc_data = << >>
    /\ enc_result = None
    /\ off_curve = {}
    /\ tx = None
    /\ fee_payer = None
    /\ prev = None
    /\ wire = None
    /\ decoded = None
    /\ pda = None

\* read_string_value(&mut words)
ReadStringValue ==
    /\ op.name = "words"
    /\ enc_result' = read_string_value(enc_words)
    /\ enc_words' = enc_result'.words
    /\ op' = Call("read_string_value", None, FALSE, enc_words)
    /\ prev' = enc_words
    /\ UNCHANGED <<tx, fee_payer, wire, decoded, off_curve, pda, enc_encoding, enc_data_values, enc_data>>

\* read_data_value(&mut words), which its callers call with a word to read
ReadDataValue ==
    /\ op.name = "words"
    /\ enc_words # << >>
    /\ enc_result' = read_data_value(enc_words)
    /\ enc_words' = enc_result'.words
    /\ op' = Call("read_data_value", None, FALSE, enc_words)
    /\ prev' = enc_words
    /\ UNCHANGED <<tx, fee_payer, wire, decoded, off_curve, pda, enc_encoding, enc_data_values, enc_data>>

NextParse ==
    \/ ReadStringValue
    \/ ReadDataValue
    \/ ReadDataValues

SpecParse == InitParse /\ [][NextParse]_vars

\* C27: read_string_value returns the contents of a quoted string without
\* either delimiting quote, its \" turned into " and its \\ into \: of a
\* quoted string of one token, the token without its first and last
\* character; of one that spans several tokens, a text that begins with the
\* first token without its first character and ends with the closing token
\* without its last character.
C27_QuotedStringContents ==
    (/\ op.name = "read_string_value"
     /\ op.arg # << >>
     /\ Len(op.arg[1]) >= 2
     /\ starts_with(op.arg[1], s_quote)
     /\ enc_result.end = "Ok") =>
        IF ends_with(op.arg[1], s_quote)
        THEN enc_result.value = unescape_string(SubSeq(op.arg[1], 2, Len(op.arg[1]) - 1))
        ELSE LET closing == CHOOSE k \in 2..Len(op.arg) :
                                /\ ends_with(op.arg[k], s_quote)
                                /\ \A i \in 2..(k - 1) : ~ends_with(op.arg[i], s_quote)
             IN  /\ starts_with(enc_result.value, unescape_string(Tail(op.arg[1])))
                 /\ ends_with(enc_result.value,
                              unescape_string(SubSeq(op.arg[closing], 1, Len(op.arg[closing]) - 1)))
                 /\ enc_words = SubSeq(op.arg, closing + 1, Len(op.arg))

\* C28: the parser never aborts with a panic: when `some` is the last word
\* it returns the error "The final some parameter is incomplete", and a
\* `some` followed by a value consumes exactly that one value.
C28_SomeLastIsAnError ==
    /\ op.name \in {"read_data_value", "read_data_values"} => enc_result.end # "panic"
    /\ (op.name = "read_data_value" /\ op.arg[1] = s_some) =>
           /\ Len(op.arg) = 1 => enc_result = ReadErr("The final some parameter is incomplete", << >>)
           /\ enc_result.end = "Ok" =>
                  /\ Len(enc_result.value) = 1
                  /\ enc_result.value[1].tag = "Some"
                  /\ enc_words = read_data_value(Tail(op.arg)).words

\* C29: parsing terminates: a call of read_data_value that returns a value
\* has removed at least one word, and read_data_values (with the loops of
\* read_vector in it) finishes on every list of words, those that hold the
\* word `none` too.
C29_ParsingTerminates ==
    /\ (op.name = "read_data_value" /\ enc_result.end = "Ok" /\ enc_result.value # None) =>
           Len(enc_words) < Len(op.arg)
    /\ op.name \in {"read_data_value", "read_data_values"} => enc_result.end # "loop"

\* C30: no filled signature slot survives a change of the message bytes:
\* whenever add_instruction, add_signature, add_address or
\* set_recent_blockhash has changed the address table, the instruction list
\* or the recent blockhash, every signature slot is empty afterwards, so
\* each signature present was installed after the last such change.
C30_NoStaleSignature ==
    (/\ op.name \in {"add_instruction", "add_signature", "add_address", "set_recent_blockhash"}
     /\ \/ Table(tx) # Table(prev)
        \/ tx.instructions # prev.instructions
        \/ tx.recent_blockhash # prev.recent_blockhash)
        => NoSignature(tx)

=============================================================================
